---- MODULE Spec2Model ----
(***************************************************************************)
(* Model of the SEC filing ingestion engine (src/src/ingestion): the       *)
(* processor's section-boundary resolution and chunking                    *)
(* (core/processor.py) and the batch loop that drives it (pipeline.py).    *)
(*                                                                         *)
(* Strings.  A Python str is modelled by its run-length encoding: a        *)
(* sequence of runs [c |-> character, n |-> repetitions], n >= 1, with no  *)
(* two adjacent runs of the same character.  The encoding is canonical, so *)
(* equality of encodings is equality of strings, and every string          *)
(* operation below is defined on the characters the encoding denotes.      *)
(* This keeps the program's own sizes (chunk_size = 1500, overlap = 200)   *)
(* within reach of the model checker.                                      *)
(***************************************************************************)
EXTENDS Integers, Sequences, FiniteSets, TLC

----------------------------------------------------------------------------
(* Characters *)

\* str.isspace() / regex \s for the characters of the model's alphabet
IsSpace(c) == c \in {" ", "\n", "\t"}

UpperLetters ==
    <<"A", "B", "C", "D", "E", "F", "G", "H", "I", "J", "K", "L", "M",
      "N", "O", "P", "Q", "R", "S", "T", "U", "V", "W", "X", "Y", "Z">>

LowerLetters ==
    <<"a", "b", "c", "d", "e", "f", "g", "h", "i", "j", "k", "l", "m",
      "n", "o", "p", "q", "r", "s", "t", "u", "v", "w", "x", "y", "z">>

\* str.lower() on one character
LowerChar(c) ==
    IF \E i \in 1..26 : UpperLetters[i] = c
    THEN LowerLetters[CHOOSE i \in 1..26 : UpperLetters[i] = c]
    ELSE c

IsDigit(c) == c \in {"0", "1", "2", "3", "4", "5", "6", "7", "8", "9"}

\* regex [A-Za-z], which is also [A-Z] under re.IGNORECASE
IsLetter(c) == \E i \in 1..26 : LowerLetters[i] = LowerChar(c)

\* regex \w
IsWordChar(c) == IsLetter(c) \/ IsDigit(c) \/ c = "_"

----------------------------------------------------------------------------
(* Local values.  Python evaluates the right-hand side of an assignment
   once and then uses the value; Let(v, LAMBDA x : e) is e with x standing
   for the value of v, computed once. *)

Let(v, F(_)) == CHOOSE r \in {F(x) : x \in {v}} : TRUE

Let2(v, w, F(_, _)) == CHOOSE r \in {F(x, y) : x \in {v}, y \in {w}} : TRUE

Let3(u, v, w, F(_, _, _)) ==
    CHOOSE r \in {F(x, y, z) : x \in {u}, y \in {v}, z \in {w}} : TRUE

RECURSIVE Concat(_)
\* the sequences of q laid end to end
Concat(q) ==
    IF Len(q) = 0 THEN << >>
    ELSE IF Len(q) = 1 THEN q[1]
    ELSE Let2(Concat(SubSeq(q, 1, Len(q) \div 2)),
              Concat(SubSeq(q, Len(q) \div 2 + 1, Len(q))),
              LAMBDA a, b : a \o b)

----------------------------------------------------------------------------
(* Strings as run-length encodings *)

Min(a, b) == IF a <= b THEN a ELSE b

Max(a, b) == IF a >= b THEN a ELSE b

RECURSIVE SumRange(_, _, _)
\* number of characters in the runs lo..hi of t
SumRange(t, lo, hi) ==
    IF lo > hi THEN 0
    ELSE IF lo = hi THEN t[lo].n
    ELSE LET mid == (lo + hi) \div 2
         IN  SumRange(t, lo, mid) + SumRange(t, mid + 1, hi)

\* number of characters in the first k runs of t
SumN(t, k) == SumRange(t, 1, k)

\* the members of a finite set of integers in increasing order
SortedSeq(S) ==
    Let(S, LAMBDA T :
        [j \in 1..Cardinality(T) |->
            CHOOSE k \in T : Cardinality({i \in T : i <= k}) = j])

\* len(t)
TLen(t) == SumN(t, Len(t))

\* canonical form: empty runs dropped, adjacent runs of one character merged
Norm(t) ==
    Let(SelectSeq(t, LAMBDA r : r.n > 0), LAMBDA u :
    Let({k \in 1..Len(u) : k = 1 \/ u[k].c # u[k - 1].c}, LAMBDA starts :
        LET nth(j) == CHOOSE k \in starts : Cardinality({i \in starts : i <= k}) = j
            endOf(k) == CHOOSE e \in k..Len(u) :
                            /\ \A i \in k..e : u[i].c = u[k].c
                            /\ e = Len(u) \/ u[e + 1].c # u[k].c
        IN  IF Cardinality(starts) = Len(u) THEN u
            ELSE [j \in 1..Cardinality(starts) |->
                    Let(nth(j), LAMBDA k :
                        [c |-> u[k].c, n |-> SumN(u, endOf(k)) - SumN(u, k - 1)])]))

\* a + b
TCat(a, b) == Norm(a \o b)

\* the string of the characters cs (a tuple of one-character strings)
Str(cs) == Norm([i \in 1..Len(cs) |-> [c |-> cs[i], n |-> 1]])

\* c * n
Rep(c, n) == Norm(<<[c |-> c, n |-> n]>>)

\* t[i:j] for 0 <= i (Python slice: j is clipped to len(t))
TSlice(t, i, j) ==
    Let3(t, i, j, LAMBDA s, from, to :
        Norm([k \in 1..Len(s) |->
                LET lo == Max(SumN(s, k - 1), from)
                    hi == Min(SumN(s, k), to)
                IN  [c |-> s[k].c, n |-> IF hi > lo THEN hi - lo ELSE 0]]))

\* t[i] (0-based), for 0 <= i < len(t)
CharAt(t, i) ==
    t[CHOOSE k \in 1..Len(t) : SumN(t, k - 1) <= i /\ i < SumN(t, k)].c

RECURSIVE LStrip(_)
LStrip(t) ==
    Let(t, LAMBDA s : IF s # << >> /\ IsSpace(s[1].c) THEN LStrip(Tail(s)) ELSE s)

RECURSIVE RStrip(_)
RStrip(t) ==
    Let(t, LAMBDA s :
        IF s # << >> /\ IsSpace(s[Len(s)].c)
        THEN RStrip(SubSeq(s, 1, Len(s) - 1))
        ELSE s)

\* t.strip()
TStrip(t) == LStrip(RStrip(t))

\* sep.join(parts): the parts with sep between each two of them
TJoin(sep, parts) ==
    Let2(sep, parts, LAMBDA s, ps :
        IF ps = << >> THEN << >>
        ELSE IF Len(ps) = 1 THEN ps[1]
        ELSE Let(Concat([k \in 1..(2 * Len(ps) - 1) |->
                            IF k % 2 = 1 THEN ps[(k + 1) \div 2] ELSE s]),
                 LAMBDA runs : Norm(runs)))

NL2 == Rep("\n", 2)

----------------------------------------------------------------------------
(* Regular expressions of the processor *)

\* t[i], or "" at and past the end of t
At(t, i) == IF 0 <= i /\ i < TLen(t) THEN CharAt(t, i) ELSE ""

\* t.lower()
TLower(t) ==
    Let(t, LAMBDA s : Norm([k \in 1..Len(s) |-> [c |-> LowerChar(s[k].c), n |-> s[k].n]]))

\* the first offset p >= i at which t ends or t[p] fails Test: where a
\* greedy X* that starts at i stops.  Only i and the offsets where a run
\* starts can be that offset.
SkipWhile(t, i, Test(_)) ==
    Let2(t, i, LAMBDA s, from :
    Let({p \in {from} \cup {SumN(s, k) : k \in 0..Len(s)} :
            p >= from /\ (p >= TLen(s) \/ ~Test(At(s, p)))},
        LAMBDA stops : CHOOSE p \in stops : \A q \in stops : p <= q))

\* regex \b at offset p of t
WordBoundary(t, p) == IsWordChar(At(t, p - 1)) # IsWordChar(At(t, p))

\* t.startswith(lit, p), ignoring case
HasLiteralAt(t, p, lit) == TLower(TSlice(t, p, p + TLen(lit))) = TLower(lit)

LitItem == Str(<<"I", "t", "e", "m">>)

\* item_pattern.match(t), r"^\s*(Item\s+\d+[A-Z]?\.?)\b" with re.IGNORECASE:
\* [ok, s, e] with group(1) = t[s:e] and group(0) = t[0:e].  The optional
\* letter and period are tried longest first, as the regex engine does;
\* giving back a digit or a blank never leads to a match.
ItemPatternMatch(t0) ==
    Let(t0, LAMBDA t :
    Let(SkipWhile(t, 0, IsSpace), LAMBDA p0 :
    Let(SkipWhile(t, p0 + 4, IsSpace), LAMBDA p2 :
    Let(SkipWhile(t, p2, IsDigit), LAMBDA p3 :
        LET p1 == p0 + 4
            head == HasLiteralAt(t, p0, LitItem) /\ p2 > p1 /\ p3 > p2
            letter == IsLetter(At(t, p3))
            e == IF letter /\ At(t, p3 + 1) = "." /\ WordBoundary(t, p3 + 2) THEN p3 + 2
                 ELSE IF letter /\ WordBoundary(t, p3 + 1) THEN p3 + 1
                 ELSE IF At(t, p3) = "." /\ WordBoundary(t, p3 + 1) THEN p3 + 1
                 ELSE IF WordBoundary(t, p3) THEN p3
                 ELSE -1
        IN  IF head /\ e >= 0 THEN [ok |-> TRUE, s |-> p0, e |-> e]
            ELSE [ok |-> FALSE, s |-> 0, e |-> 0]))))

RECURSIVE RStripDots(_)
\* t.rstrip(".")
RStripDots(t) ==
    Let(t, LAMBDA s :
        IF s # << >> /\ s[Len(s)].c = "." THEN RStripDots(SubSeq(s, 1, Len(s) - 1))
        ELSE s)

\* match.group(1).strip().rstrip(".") for a text that matches
ItemNumberOf(t) ==
    Let(ItemPatternMatch(t), LAMBDA m : RStripDots(TStrip(TSlice(t, m.s, m.e))))

----------------------------------------------------------------------------
(* Cleaner: SECProcessor._clean_section_content and the whitespace
   normalisation it shares with _extract_content_between *)

\* t[i:]
TFrom(t, i) == TSlice(t, i, TLen(t))

\* the least member of a non-empty set of integers
Least(S) == CHOOSE p \in S : \A q \in S : p <= q

\* the offsets of the last character of every run of the character c
LastOfRuns(t, c) ==
    Let(t, LAMBDA s : {SumN(s, k) - 1 : k \in {j \in 1..Len(s) : LowerChar(s[j].c) = c}})

LitForwardLooking ==
    Str(<<"F", "o", "r", "w", "a", "r", "d", "-", "L", "o", "o", "k", "i", "n", "g",
          " ", "S", "t", "a", "t", "e", "m", "e", "n", "t", "s">>)

\* where the first "\n\n" at or after offset e ends, or len(t) when there is none
BlankLineEnd(t, e) ==
    Let2(t, e, LAMBDA s, from :
    Let({Max(SumN(s, k - 1), from) :
            k \in {j \in 1..Len(s) :
                     /\ s[j].c = "\n"
                     /\ Max(SumN(s, j - 1), from) + 2 <= SumN(s, j)}},
        LAMBDA qs : IF qs = {} THEN TLen(s) ELSE Least(qs) + 2))

RECURSIVE RemoveForwardLooking(_)
\* re.sub(r"Forward-Looking Statements.*?(?:\n\n|\Z)", "", t) with
\* re.IGNORECASE | re.DOTALL.  The phrase can only start at the last
\* character of a run of "f".
RemoveForwardLooking(t) ==
    Let(t, LAMBDA s :
    Let({p \in LastOfRuns(s, "f") : HasLiteralAt(s, p, LitForwardLooking)}, LAMBDA ps :
        IF ps = {} THEN s
        ELSE Let(Least(ps), LAMBDA p :
             Let(BlankLineEnd(s, p + TLen(LitForwardLooking)), LAMBDA cut :
                 TCat(TSlice(s, 0, p), RemoveForwardLooking(TFrom(s, cut)))))))

\* regex [A-Za-z ]
IsNameChar(c) == IsLetter(c) \/ c = " "

\* the number of " " characters that end t[0:e]
TrailingBlanks(t, e) ==
    Let2(t, e, LAMBDA s, to :
        to - Least({q \in {to} \cup {SumN(s, k) : k \in 0..Len(s)} :
                      q <= to /\ \A k \in 1..Len(s) :
                         Max(SumN(s, k - 1), q) < Min(SumN(s, k), to) => s[k].c = " "}))

\* for "/s/" at offset p: where a match of r"/s/\s+[A-Za-z ]{5,}" ends, or -1.
\* \s+ may give trailing blanks back to the name, but keeps one character.
SignatureEnd(t, p) ==
    Let(SkipWhile(t, p + 3, IsSpace), LAMBDA w :
    Let2(SkipWhile(t, w, IsNameChar), Min(TrailingBlanks(t, w), w - (p + 3) - 1),
         LAMBDA e, give :
        IF At(t, p) = "/" /\ At(t, p + 1) = "s" /\ At(t, p + 2) = "/"
           /\ w > p + 3 /\ (e - w) + give >= 5
        THEN e ELSE -1))

\* where the whitespace that runs up to offset p starts
WsStartBefore(t, p) ==
    Let2(t, p, LAMBDA s, to :
        Least({q \in {to} \cup {SumN(s, k) : k \in 0..Len(s)} :
                 q <= to /\ \A k \in 1..Len(s) :
                    Max(SumN(s, k - 1), q) < Min(SumN(s, k), to) => IsSpace(s[k].c)}))

RECURSIVE RemoveSignatures(_)
\* re.sub(r"\s*/s/\s+[A-Za-z ]{5,}", "", t)
RemoveSignatures(t) ==
    Let(t, LAMBDA s :
    Let({p \in LastOfRuns(s, "/") : SignatureEnd(s, p) >= 0}, LAMBDA ps :
        IF ps = {} THEN s
        ELSE Let(Least(ps), LAMBDA p :
                 TCat(TSlice(s, 0, WsStartBefore(s, p)),
                      RemoveSignatures(TFrom(s, SignatureEnd(s, p)))))))

\* t.splitlines() without its empty lines: the stretches of runs between
\* the runs of "\n"
NonEmptyLines(t) ==
    Let(t, LAMBDA s :
    Let(SortedSeq({0, Len(s) + 1} \cup {k \in 1..Len(s) : s[k].c = "\n"}), LAMBDA cuts :
        SelectSeq([i \in 1..(Len(cuts) - 1) |-> SubSeq(s, cuts[i] + 1, cuts[i + 1] - 1)],
                  LAMBDA seg : seg # << >>)))

\* the least number of characters a line must exceed to be kept
MinLineLen == 10

\* mutant of KeepLine: a line of MinLineLen characters is kept
KeepLine_AtLeast(line) ==
    Let(TStrip(line), LAMBDA stripped :
        TLen(stripped) >= MinLineLen \/ ItemPatternMatch(stripped).ok)

\* the test of the line filter (processor.py 329)
KeepLine(line) ==
    Let(TStrip(line), LAMBDA stripped :
        TLen(stripped) > MinLineLen \/ ItemPatternMatch(stripped).ok)

\* re.sub(r"\n{3,}", "\n\n", t)
CollapseNewlines(t) ==
    Let(t, LAMBDA s :
        [k \in 1..Len(s) |->
            IF s[k].c = "\n" /\ s[k].n >= 3 THEN [c |-> "\n", n |-> 2] ELSE s[k]])

IsBlank(c) == c \in {" ", "\t"}

\* re.sub(r"[ \t]{2,}", " ", t): a stretch of two or more blanks becomes one
\* space, written in place of the first run of the stretch
CollapseBlanks(t) ==
    Let(t, LAMBDA s :
        LET first(k) == CHOOSE b \in 1..k :
                            /\ \A j \in b..k : IsBlank(s[j].c)
                            /\ b = 1 \/ ~IsBlank(s[b - 1].c)
            last(k) == CHOOSE e \in k..Len(s) :
                            /\ \A j \in k..e : IsBlank(s[j].c)
                            /\ e = Len(s) \/ ~IsBlank(s[e + 1].c)
        IN  Norm([k \in 1..Len(s) |->
                    IF ~IsBlank(s[k].c) THEN s[k]
                    ELSE Let(first(k), LAMBDA b :
                             IF SumN(s, last(k)) - SumN(s, b - 1) < 2 THEN s[k]
                             ELSE [c |-> " ", n |-> IF k = b THEN 1 ELSE 0])]))

\* the normalisation that ends both functions (processor.py 272-273, 332-333)
NormalizeWhitespace(t) == Let(CollapseNewlines(t), LAMBDA s : CollapseBlanks(s))

\* mutant of CleanSectionContent: the kept lines are joined by an empty line
CleanSectionContent_BlankLineJoin(text) ==
    Let(RemoveForwardLooking(text), LAMBDA t1 :
    Let(RemoveSignatures(t1), LAMBDA t2 :
    Let(NonEmptyLines(t2), LAMBDA lines :
    Let(SelectSeq(lines, KeepLine), LAMBDA kept :
    Let(TJoin(Rep("\n", 2), [i \in 1..Len(kept) |-> TStrip(kept[i])]), LAMBDA t3 :
    Let(TStrip(t3), LAMBDA t4 : NormalizeWhitespace(t4)))))))

\* _clean_section_content(text)
CleanSectionContent(text) ==
    Let(RemoveForwardLooking(text), LAMBDA t1 :
    Let(RemoveSignatures(t1), LAMBDA t2 :
    Let(NonEmptyLines(t2), LAMBDA lines :
    Let(SelectSeq(lines, KeepLine), LAMBDA kept :
    Let(TJoin(Rep("\n", 1), [i \in 1..Len(kept) |-> TStrip(kept[i])]), LAMBDA t3 :
    Let(TStrip(t3), LAMBDA t4 : NormalizeWhitespace(t4)))))))

----------------------------------------------------------------------------
(* Chunker: SECProcessor._chunk_text *)

DefaultChunkSize == 1500

DefaultOverlap == 200

\* index of the last run of the whitespace group that starts at run k
WsGroupEnd(t, k) ==
    CHOOSE e \in k..Len(t) :
        /\ \A j \in k..e : IsSpace(t[j].c)
        /\ e = Len(t) \/ ~IsSpace(t[e + 1].c)

RECURSIVE SplitFrom(_, _, _, _)
\* re.split(r"\n\s*\n", t) from run k on: cur is the piece being built.  A
\* match starts at the first newline of a whitespace stretch that holds at
\* least two newlines and, \s* being greedy, ends at its last newline.
SplitFrom(t, k, cur, out) ==
    Let3(k, cur, out, LAMBDA at, piece, done :
        IF at > Len(t) THEN Append(done, Norm(piece))
        ELSE IF ~IsSpace(t[at].c) THEN SplitFrom(t, at + 1, Append(piece, t[at]), done)
        ELSE Let(WsGroupEnd(t, at), LAMBDA e :
             Let({j \in at..e : t[j].c = "\n"}, LAMBDA nl :
                 LET first == CHOOSE j \in nl : \A i \in nl : j <= i
                     last == CHOOSE j \in nl : \A i \in nl : j >= i
                     single == nl = {} \/ (first = last /\ t[first].n = 1)
                 IN  IF single
                     THEN SplitFrom(t, e + 1, piece \o SubSeq(t, at, e), done)
                     ELSE SplitFrom(t, e + 1, SubSeq(t, last + 1, e),
                                    Append(done, Norm(piece \o SubSeq(t, at, first - 1)))))))

\* re.split(r"\n\s*\n", text)
ReSplitBlank(t) == Let(t, LAMBDA s : SplitFrom(s, 1, << >>, << >>))

\* the p_strip of every piece that is kept (processor.py 347-351)
Paragraphs(t) ==
    Let(ReSplitBlank(t), LAMBDA pieces :
        SelectSeq([i \in 1..Len(pieces) |-> TStrip(pieces[i])], LAMBDA p : p # << >>))

RECURSIVE OverlapFrom(_, _, _, _, _)
\* the loop over reversed(current_chunk_paragraphs): j is the paragraph
\* looked at, acc the overlap_paragraphs so far, accLen the overlap_len
OverlapFrom(cur, j, acc, accLen, ov) ==
    Let3(j, acc, accLen, LAMBDA at, paras, len :
        IF at = 0 THEN [paras |-> paras, len |-> len]
        ELSE Let(len + TLen(cur[at]) + (IF paras # << >> THEN 2 ELSE 0), LAMBDA grown :
                 IF grown <= ov
                 THEN OverlapFrom(cur, at - 1, <<cur[at]>> \o paras, grown, ov)
                 ELSE [paras |-> paras, len |-> len]))

\* mutant of OverlapParagraphs: the last paragraph is always carried over
OverlapParagraphs_AtLeastOne(cur, ov) ==
    Let(OverlapFrom(cur, Len(cur), << >>, 0, ov), LAMBDA o :
        IF o.paras = << >>
        THEN [paras |-> <<cur[Len(cur)]>>, len |-> TLen(cur[Len(cur)])]
        ELSE o)

\* overlap_paragraphs and overlap_len for a chunk that is being closed
OverlapParagraphs(cur, ov) == OverlapFrom(cur, Len(cur), << >>, 0, ov)

\* the test that closes the current chunk, without the separator
Overflows_NoSeparator(cur, curLen, pLen, cs) == cur # << >> /\ curLen + pLen > cs

\* the test that closes the current chunk before paragraph p (processor.py 353)
Overflows(cur, curLen, pLen, cs) == cur # << >> /\ curLen + pLen + 2 > cs

RECURSIVE PackFrom(_, _, _, _, _, _, _, _)
\* the packing loop from paragraph k on.  A packed chunk is kept as the list
\* of its paragraphs together with seed, the number of overlap paragraphs it
\* was started with; the program appends the paragraphs joined by "\n\n".
PackFrom(ps, k, chunks, cur, curLen, seed, cs, ov) ==
    Let3(k, chunks, cur, LAMBDA at, done, paras :
    Let2(curLen, seed, LAMBDA len, seeded :
        IF at > Len(ps)
        THEN IF paras # << >> THEN Append(done, [paras |-> paras, seed |-> seeded])
             ELSE done
        ELSE Let(TLen(ps[at]), LAMBDA pLen :
                 IF Overflows(paras, len, pLen, cs)
                 THEN Let(OverlapParagraphs(paras, ov), LAMBDA o :
                          PackFrom(ps, at + 1,
                                   Append(done, [paras |-> paras, seed |-> seeded]),
                                   Append(o.paras, ps[at]),
                                   o.len + pLen + (IF o.paras # << >> THEN 2 ELSE 0),
                                   Len(o.paras), cs, ov))
                 ELSE PackFrom(ps, at + 1, done, Append(paras, ps[at]),
                               len + (IF paras # << >> THEN 2 ELSE 0) + pLen,
                               seeded, cs, ov))))

\* the packed chunks of a text (processor.py 342-381)
PackedChunks(text, cs, ov) ==
    Let(Paragraphs(text), LAMBDA ps : PackFrom(ps, 1, << >>, << >>, 0, 0, cs, ov))

\* "\n\n".join(current_chunk_paragraphs)
JoinParagraphs(ps) == TJoin(NL2, ps)

\* a chunk is never taken to be oversized
Oversized_Never(len, cs) == FALSE

\* len(chunk) > chunk_size * 1.3
Oversized(len, cs) == 10 * len > 13 * cs

\* mutant of NextStart: the overlap is added to the step, not taken from it
NextStart_SignSlip(start, cs, ov) ==
    IF start + cs + ov <= start THEN start + 1 ELSE start + cs + ov

\* next_start of the force-split loop (processor.py 394-396)
NextStart(start, cs, ov) ==
    IF start + cs - ov <= start THEN start + 1 ELSE start + cs - ov

\* the force-split loop with a break once a window has reached the end of
\* the chunk
WindowsFrom_StopAtEnd(len, start, cs, ov) ==
    LET step == NextStart(0, cs, ov)
        ks == {k \in 0..len : /\ start + k * step < len
                              /\ k = 0 \/ start + (k - 1) * step + cs < len}
    IN  [i \in 1..Cardinality(ks) |->
            [s |-> start + (i - 1) * step, e |-> Min(start + (i - 1) * step + cs, len)]]

RECURSIVE WindowsFrom(_, _, _, _)
\* the force-split loop from offset start: the windows [s, e) it emits
WindowsFrom(len, start, cs, ov) ==
    Let2(len, start, LAMBDA n, from :
        IF from >= n THEN << >>
        ELSE <<[s |-> from, e |-> Min(from + cs, n)]>>
             \o WindowsFrom(n, NextStart(from, cs, ov), cs, ov))

\* what one packed chunk contributes to final_chunks (processor.py 385-401)
FinalOf(chunk, cs, ov) ==
    Let(chunk, LAMBDA c :
        IF Oversized(TLen(c), cs)
        THEN Let(WindowsFrom(TLen(c), 0, cs, ov), LAMBDA w :
                 [i \in 1..Len(w) |-> TSlice(c, w[i].s, w[i].e)])
        ELSE IF c # << >> THEN <<c>> ELSE << >>)

RECURSIVE FlatMap(_, _, _, _)
FlatMap(chunks, k, cs, ov) ==
    Let2(chunks, k, LAMBDA packed, at :
        IF at > Len(packed) THEN << >>
        ELSE FinalOf(JoinParagraphs(packed[at].paras), cs, ov)
             \o FlatMap(packed, at + 1, cs, ov))

\* _chunk_text(text, chunk_size, overlap)
ChunkText(text, cs, ov) ==
    IF text = << >> THEN << >>
    ELSE FlatMap(PackedChunks(text, cs, ov), 1, cs, ov)

----------------------------------------------------------------------------
(* Chunk emission: SECProcessor._section_to_chunks *)

\* chunk ids that count from 1
ChunkId_OneBased(i) == i

\* the chunk_id of the i-th text chunk (1-based here; enumerate counts from 0)
ChunkId(i) == i - 1

\* mutant of CombinedText: the section content is always taken
CombinedText_AlwaysContent(text_chunks, content) == content

\* combined_text (processor.py 420)
CombinedText(text_chunks, content) ==
    IF Len(text_chunks) = 1 THEN text_chunks[1] ELSE content

\* process_as_single_chunk (processor.py 417)
ProcessAsSingleChunk(cli, text_chunks) == ~cli \/ Len(text_chunks) = 1

\* ChunkMetadata(company, year, item, title, chunk_id, source)
ChunkMetadata(section, company, year, source, id) ==
    [company |-> company, year |-> year, item |-> section.item_number,
     title |-> section.title, chunk_id |-> id, source |-> source]

\* _section_to_chunks(section, company, year, source) of a processor whose
\* chunk_long_items is cli
SectionToChunks(section, company, year, source, cli) ==
    IF section.content = << >> THEN << >>
    ELSE Let(ChunkText(section.content, DefaultChunkSize, DefaultOverlap),
             LAMBDA text_chunks :
                 IF text_chunks = << >> THEN << >>
                 ELSE IF ProcessAsSingleChunk(cli, text_chunks)
                 THEN <<[text |-> CombinedText(text_chunks, section.content),
                         metadata |-> ChunkMetadata(section, company, year, source, 0)]>>
                 ELSE [i \in 1..Len(text_chunks) |->
                         [text |-> text_chunks[i],
                          metadata |-> ChunkMetadata(section, company, year, source,
                                                     ChunkId(i))]])

----------------------------------------------------------------------------
(* Documents: the tree BeautifulSoup hands to the processor.  A node is an
   element (its children in kids) or a NavigableString (name "#text", its
   characters in text).  An absent attribute is the empty string: the
   program only tests id, name and href for truth or for equality with a
   non-empty fragment.  A path is the sequence of child indices that leads
   from <body> to a node. *)

Elem(name, id, nm, href, hidden, kids) ==
    [name |-> name, id |-> id, nm |-> nm, href |-> href, hidden |-> hidden,
     text |-> << >>, kids |-> kids]

TextNode(t) ==
    [name |-> "#text", id |-> << >>, nm |-> << >>, href |-> << >>,
     hidden |-> FALSE, text |-> t, kids |-> << >>]

IsTag(n) == n.name # "#text"

RECURSIVE NodeAt(_, _)
\* the node at path p under the children kids
NodeAt(kids, p) ==
    IF Len(p) = 1 THEN kids[p[1]] ELSE NodeAt(kids[p[1]].kids, Tail(p))

RECURSIVE Walk(_, _, _)
\* the paths of all nodes under kids from child i on, in document order
Walk(kids, prefix, i) ==
    Let3(kids, prefix, i, LAMBDA ks, pre, j :
        Concat([k \in 1..(Len(ks) + 1 - j) |->
                   Let(Append(pre, j + k - 1), LAMBDA p :
                       <<p>> \o Walk(ks[j + k - 1].kids, p, 1))]))

\* every node of the tree, in document order (soup.descendants)
AllPaths(soup) == Walk(soup, << >>, 1)

\* soup.find_all([names]): the elements with one of the names, in document order
FindAll(soup, names) ==
    SelectSeq(AllPaths(soup), LAMBDA p : NodeAt(soup, p).name \in names)

\* q lies strictly below p
IsUnder(q, p) == Len(q) > Len(p) /\ SubSeq(q, 1, Len(p)) = p

\* the name of the parent of the node at p; a top-level node hangs off <body>
ParentName(soup, p) ==
    IF Len(p) = 1 THEN "body" ELSE NodeAt(soup, SubSeq(p, 1, Len(p) - 1)).name

RECURSIVE Strings(_)
\* the strings below (or at) a node, in document order
Strings(n) ==
    Let(n, LAMBDA node :
        IF ~IsTag(node) THEN <<node.text>>
        ELSE Concat([i \in 1..Len(node.kids) |-> Strings(node.kids[i])]))

\* the stripped, non-empty strings of a node
StrippedStrings(n) ==
    Let(Strings(n), LAMBDA ss :
        SelectSeq([i \in 1..Len(ss) |-> TStrip(ss[i])], LAMBDA s : s # << >>))

\* tag.get_text(" ", strip=True)
GetText(n) == Let(StrippedStrings(n), LAMBDA ss : TJoin(Rep(" ", 1), ss))

\* not tag.get_text(strip=True)
HasNoText(n) == StrippedStrings(n) = << >>

----------------------------------------------------------------------------
(* Loader: SECProcessor._load_html *)

RemovedTags == {"script", "style", "header", "footer", "nav"}

RECURSIVE Sanitize(_)
\* the tree after the decompose() calls: the removed elements and the
\* hidden <div>s go, with everything below them
Sanitize(kids) ==
    Let(SelectSeq(kids, LAMBDA n :
            ~(n.name \in RemovedTags) /\ ~(n.name = "div" /\ n.hidden)),
        LAMBDA keep :
            [i \in 1..Len(keep) |-> [keep[i] EXCEPT !.kids = Sanitize(keep[i].kids)]])

\* Optional values: None, or some value
None == [some |-> FALSE, val |-> << >>]

Some(v) == [some |-> TRUE, val |-> v]

\* _load_html(filepath): None when the file is missing or cannot be read or
\* parsed, the sanitised tree otherwise
LoadHtml(file) ==
    IF file.status = "ok" THEN Some(Sanitize(file.tree)) ELSE None

\* the offset after the last "/" of a path, 0 when there is none
AfterLastSlash(p) ==
    Let({SumN(p, k) : k \in {j \in 1..Len(p) : p[j].c = "/"}}, LAMBDA ends :
        IF ends = {} THEN 0 ELSE CHOOSE e \in ends : \A x \in ends : x <= e)

\* os.path.basename(filepath), by mistake the whole path
Basename_Verbatim(p) == p

\* os.path.basename(filepath)
Basename(p) == TFrom(p, AfterLastSlash(p))

----------------------------------------------------------------------------
(* TOC extractor: SECProcessor._extract_table_of_contents *)

LitItem1A == Str(<<"I", "t", "e", "m", " ", "1", "A">>)

LitRiskFactors ==
    Str(<<"R", "i", "s", "k", " ", "F", "a", "c", "t", "o", "r", "s">>)

\* ITEM_TITLE_MAPPING: a table from item numbers to titles
ItemTitleMapping == [k \in {LitItem1A} |-> LitRiskFactors]

\* _get_item_title(item_id)
GetItemTitle(item_id) ==
    Let(TStrip(item_id), LAMBDA key :
        IF key \in DOMAIN ItemTitleMapping THEN ItemTitleMapping[key] ELSE item_id)

TableOfContentsItem(item_number, anchor) ==
    [item_number |-> item_number, title |-> GetItemTitle(item_number),
     anchor_text |-> anchor]

\* what seen_items holds for an item number, compared as written
SeenKey_Exact(item_number) == item_number

\* what seen_items holds for an item number
SeenKey(item_number) == TLower(item_number)

\* seen_items: a key is added exactly when an item is appended
SeenItems(toc_items) == {SeenKey(toc_items[i].item_number) : i \in 1..Len(toc_items)}

\* href and href.startswith("#")
IsFragmentLink(n) == n.name = "a" /\ At(n.href, 0) = "#"

\* parent.find_all("a", href=...): the fragment links below the element at p
LinksUnder(soup, p) ==
    SelectSeq(AllPaths(soup),
              LAMBDA q : IsUnder(q, p) /\ IsFragmentLink(NodeAt(soup, q)))

\* what one turn of the link loop reads off its link: nothing when the text
\* does not match, else the item number and the href
LinkEntry(soup, p) ==
    Let(NodeAt(soup, p), LAMBDA link :
    Let(GetText(link), LAMBDA link_text :
        IF ~ItemPatternMatch(link_text).ok THEN None
        ELSE Some([item_number |-> ItemNumberOf(link_text),
                   anchor_text |-> Some(link.href), short |-> TRUE])))

\* toc_items after the turns i..Len(entries) of a loop whose turn k appends
\* the item of entries[k] unless its key is in seen_items
AppendUnseen(entries, i, toc_items) ==
    LET after[k \in (i - 1)..Len(entries)] ==
            IF k = i - 1 THEN toc_items
            ELSE Let2(after[k - 1], entries[k], LAMBDA toc, e :
                     IF e.some /\ SeenKey(e.val.item_number) \notin SeenItems(toc)
                               /\ e.val.short
                     THEN Append(toc, TableOfContentsItem(e.val.item_number,
                                                          e.val.anchor_text))
                     ELSE toc)
    IN  after[Len(entries)]

\* the loop over the links of one container, from link i on
ScanLinks(soup, links, i, toc_items) ==
    Let([k \in 1..Len(links) |-> LinkEntry(soup, links[k])], LAMBDA entries :
        AppendUnseen(entries, i, toc_items))

\* the loop over potential_toc_parents without its break: every parent
\* adds its items
ScanParents_NoBreak(soup, parents, i) ==
    LET after[k \in (i - 1)..Len(parents)] ==
            IF k = i - 1 THEN << >>
            ELSE Let(after[k - 1], LAMBDA toc :
                     ScanLinks(soup, LinksUnder(soup, parents[k]), 1, toc))
    IN  after[Len(parents)]

RECURSIVE ScanParents(_, _, _)
\* the loop over potential_toc_parents from parent i on: it breaks after the
\* first parent that yields an item
ScanParents(soup, parents, i) ==
    Let2(parents, i, LAMBDA ps, j :
        IF j > Len(ps) THEN << >>
        ELSE Let(ScanLinks(soup, LinksUnder(soup, ps[j]), 1, << >>), LAMBDA found :
                 IF found # << >> THEN found ELSE ScanParents(soup, ps, j + 1)))

\* Strategy A
TocFromLinks(soup) ==
    ScanParents(soup, FindAll(soup, {"table", "ul", "ol", "div"}), 1)

\* an item number must be shorter than this in the text search
MaxItemNumberLen == 20

\* the anchor the text search derives from the parent of a text node
ParentAnchor(soup, p) ==
    IF Len(p) = 1 THEN None
    ELSE Let(NodeAt(soup, SubSeq(p, 1, Len(p) - 1)), LAMBDA parent_tag :
             IF parent_tag.id # << >> THEN Some(TCat(Rep("#", 1), parent_tag.id))
             ELSE IF parent_tag.nm # << >> THEN Some(TCat(Rep("#", 1), parent_tag.nm))
             ELSE None)

\* what one turn of the text loop reads off its text node: nothing when the
\* parent is a script or style element or the text does not match, else the
\* item number, the anchor of the parent and whether the number is short
TextEntry(soup, p) ==
    Let(TStrip(NodeAt(soup, p).text), LAMBDA text :
        IF ParentName(soup, p) \in {"script", "style"} \/ ~ItemPatternMatch(text).ok
        THEN None
        ELSE Let(ItemNumberOf(text), LAMBDA item_number :
                 Some([item_number |-> item_number,
                       anchor_text |-> ParentAnchor(soup, p),
                       short |-> TLen(item_number) < MaxItemNumberLen])))

\* the loop over all_text_elements from node i on
ScanTextNodes(soup, nodes, i, toc_items) ==
    Let([k \in 1..Len(nodes) |-> TextEntry(soup, nodes[k])], LAMBDA entries :
        AppendUnseen(entries, i, toc_items))

\* Strategy B
TocFromText(soup) == ScanTextNodes(soup, FindAll(soup, {"#text"}), 1, << >>)

\* _extract_table_of_contents(soup)
ExtractTableOfContents(soup) ==
    Let(TocFromLinks(soup), LAMBDA toc_items :
        IF toc_items # << >> THEN toc_items ELSE TocFromText(soup))

----------------------------------------------------------------------------
(* Boundary resolver: SECProcessor._find_section_start_element *)

\* no node
NoPath == << >>

\* the first member of a sequence of paths, NoPath when it is empty
FirstOf(paths) == IF paths = << >> THEN NoPath ELSE paths[1]

\* soup.find(id=anchor_name) or soup.find(attrs={"name": anchor_name})
FindTarget(soup, anchor_name) ==
    Let2(SelectSeq(AllPaths(soup), LAMBDA p : IsTag(NodeAt(soup, p))), anchor_name,
         LAMBDA tags, wanted :
    Let(SelectSeq(tags, LAMBDA p : NodeAt(soup, p).id = wanted), LAMBDA by_id :
        IF by_id # << >> THEN by_id[1]
        ELSE FirstOf(SelectSeq(tags, LAMBDA p : NodeAt(soup, p).nm = wanted))))

\* the children of the parent of the node at p
SiblingsOf(soup, p) ==
    IF Len(p) = 1 THEN soup ELSE NodeAt(soup, SubSeq(p, 1, Len(p) - 1)).kids

\* the path of sibling j of the node at p
SiblingPath(p, j) == Append(SubSeq(p, 1, Len(p) - 1), j)

IsEmptyAnchor(n) == n.name = "a" /\ HasNoText(n)

\* find_next_sibling() called once, without the loop that skips further
\* empty <a> elements
NextContentSibling_OneStep(soup, p) ==
    Let(SiblingsOf(soup, p), LAMBDA sibs :
    Let({j \in (p[Len(p)] + 1)..Len(sibs) : IsTag(sibs[j])},
        LAMBDA js : IF js = {} THEN NoPath ELSE SiblingPath(p, Least(js))))

\* find_next_sibling() repeated while it lands on an empty <a>: the first
\* later sibling element that is not one, NoPath when there is none
NextContentSibling(soup, p) ==
    Let(SiblingsOf(soup, p), LAMBDA sibs :
    Let({j \in (p[Len(p)] + 1)..Len(sibs) : IsTag(sibs[j]) /\ ~IsEmptyAnchor(sibs[j])},
        LAMBDA js : IF js = {} THEN NoPath ELSE SiblingPath(p, Least(js))))

\* item_num_pattern_strict.match(text): ^\s*<item_number>\b, ignoring case
StrictItemMatch(text, item_number) ==
    Let(SkipWhile(text, 0, IsSpace), LAMBDA p0 :
        /\ HasLiteralAt(text, p0, item_number)
        /\ WordBoundary(text, p0 + TLen(item_number)))

\* the slack is_short_content allows over item number and title
ShortContentSlack == 40

\* mutant of IsSectionHeader: bold text does not count
IsSectionHeader_ShortOnly(soup, h, item) ==
    Let(GetText(NodeAt(soup, h)), LAMBDA text :
        /\ StrictItemMatch(text, item.item_number)
        /\ TLen(text) < TLen(item.item_number) + TLen(item.title) + ShortContentSlack)

\* the test a potential header must pass (processor.py 198-206)
IsSectionHeader(soup, h, item) ==
    Let(GetText(NodeAt(soup, h)), LAMBDA text :
        /\ StrictItemMatch(text, item.item_number)
        /\ \/ NodeAt(soup, h).name \in {"b", "strong"}
           \/ ParentName(soup, h) \in {"b", "strong"}
           \/ TLen(text) < TLen(item.item_number) + TLen(item.title) + ShortContentSlack)

\* the header search that follows a failed anchor lookup
FindByHeader(soup, item) ==
    Let2(FindAll(soup, {"p", "div", "b", "strong", "h1", "h2", "h3", "h4"}), item,
         LAMBDA candidates, it :
    Let(SelectSeq(candidates, LAMBDA h : IsSectionHeader(soup, h, it)), LAMBDA hs :
        IF hs = << >> THEN NoPath
        ELSE IF NodeAt(soup, hs[1]).name \in {"b", "strong"}
                /\ ParentName(soup, hs[1]) \in {"p", "div"}
        THEN SubSeq(hs[1], 1, Len(hs[1]) - 1)
        ELSE hs[1]))

\* _find_section_start_element(soup, item): the path of the start node
FindSectionStartElement(soup, item) ==
    Let(item.anchor_text, LAMBDA anchor :
    Let(IF anchor.some /\ At(anchor.val, 0) = "#"
        THEN FindTarget(soup, TFrom(anchor.val, 1)) ELSE NoPath, LAMBDA target :
        IF target = NoPath THEN FindByHeader(soup, item)
        ELSE IF ~IsEmptyAnchor(NodeAt(soup, target)) THEN target
        ELSE Let(NextContentSibling(soup, target), LAMBDA next_sibling :
                 IF next_sibling # NoPath THEN next_sibling ELSE target)))

----------------------------------------------------------------------------
(* Content extractor: SECProcessor._extract_content_between *)

LitTableOfContents ==
    Str(<<"t", "a", "b", "l", "e", " ", "o", "f", " ", "c", "o", "n", "t", "e", "n", "t", "s">>)

\* lit in t
Contains(t, lit) ==
    Let2(t, lit, LAMBDA s, l :
        \E p \in LastOfRuns(s, l[1].c) : TSlice(s, p, p + TLen(l)) = l)

\* tag texts shorter than this that name the table of contents are dropped
TocMentionLen == 100

\* the nodes below a tag (tag.descendants)
Descendants(n) ==
    Let2(n.kids, AllPaths(n.kids), LAMBDA kids, paths :
        {NodeAt(kids, paths[i]) : i \in 1..Len(paths)})

\* mutant of StartNodeParts: a block element contributes its text as well
StartNodeParts_BlocksToo(start_node) ==
    Let(GetText(start_node), LAMBDA start_node_text :
    Let(ItemPatternMatch(start_node_text), LAMBDA temp_match :
        IF IsEmptyAnchor(start_node) THEN << >>
        ELSE IF start_node_text # << >>
                /\ (~temp_match.ok \/ TLen(start_node_text) > temp_match.e)
        THEN <<start_node_text>>
        ELSE << >>))

\* what the start node itself contributes (processor.py 225-235)
StartNodeParts(start_node) ==
    Let(GetText(start_node), LAMBDA start_node_text :
    Let(ItemPatternMatch(start_node_text), LAMBDA temp_match :
        IF IsEmptyAnchor(start_node) THEN << >>
        ELSE IF start_node.name \in {"div", "table", "tr", "p", "ul", "ol"} THEN << >>
        ELSE IF start_node_text # << >>
                /\ (~temp_match.ok \/ TLen(start_node_text) > temp_match.e)
        THEN <<start_node_text>>
        ELSE << >>))

\* what one sibling contributes (processor.py 253-266)
NodeParts(n) ==
    IF ~IsTag(n)
    THEN Let(TStrip(n.text), LAMBDA text : IF text # << >> THEN <<text>> ELSE << >>)
    ELSE IF n.name \in {"script", "style"} THEN << >>
    ELSE Let(GetText(n), LAMBDA tag_text :
         Let(TLower(tag_text), LAMBDA lower_text :
             IF Contains(lower_text, LitTableOfContents) /\ TLen(lower_text) < TocMentionLen
             THEN << >>
             ELSE IF tag_text # << >> THEN <<tag_text>> ELSE << >>))

\* the stop conditions of the sibling walk without the safeguard against
\* nesting: only the end node itself stops the walk
StopsAt_EqualOnly(n, end_node) ==
    /\ end_node.some
    /\ n = end_node.val

\* the stop conditions of the sibling walk; nodes compare by structure (Tag.__eq__)
StopsAt(n, end_node) ==
    /\ end_node.some
    /\ n = end_node.val \/ (IsTag(n) /\ end_node.val \in Descendants(n))

\* the while loop with the break after the append: the sibling that meets
\* a stop condition contributes as well
CollectParts_ThroughStop(sibs, i, end_node, content_parts) ==
    Let3(sibs, i, content_parts, LAMBDA ss, j, parts :
    Let({k \in j..Len(ss) : StopsAt(ss[k], end_node)}, LAMBDA stops :
    Let(IF stops = {} THEN Len(ss) ELSE Least(stops), LAMBDA last :
        parts \o Concat([k \in 1..(last + 1 - j) |-> NodeParts(ss[j + k - 1])]))))

\* the while loop over the siblings from sibling i on: it breaks at the
\* first sibling that meets a stop condition and appends what the siblings
\* before that one contribute
CollectParts(sibs, i, end_node, content_parts) ==
    Let3(sibs, i, content_parts, LAMBDA ss, j, parts :
    Let({k \in j..Len(ss) : StopsAt(ss[k], end_node)}, LAMBDA stops :
    Let(IF stops = {} THEN Len(ss) ELSE Least(stops) - 1, LAMBDA last :
        parts \o Concat([k \in 1..(last + 1 - j) |-> NodeParts(ss[j + k - 1])]))))

\* mutant of ExtractContentBetween: nothing is collected when the end node
\* is the start node
ExtractContentBetween_EmptyWhenSame(soup, start, end_node) ==
    IF end_node.some /\ end_node.val = NodeAt(soup, start) THEN << >>
    ELSE
    Let(StartNodeParts(NodeAt(soup, start)), LAMBDA first :
    Let(CollectParts(SiblingsOf(soup, start), start[Len(start)] + 1, end_node, first),
        LAMBDA content_parts :
    Let(TJoin(Rep("\n", 1), content_parts), LAMBDA content :
    Let(TStrip(content), LAMBDA stripped : NormalizeWhitespace(stripped)))))

\* _extract_content_between(start_node, end_node), the start node given by
\* its path and the end node by its value
ExtractContentBetween(soup, start, end_node) ==
    Let(StartNodeParts(NodeAt(soup, start)), LAMBDA first :
    Let(CollectParts(SiblingsOf(soup, start), start[Len(start)] + 1, end_node, first),
        LAMBDA content_parts :
    Let(TJoin(Rep("\n", 1), content_parts), LAMBDA content :
    Let(TStrip(content), LAMBDA stripped : NormalizeWhitespace(stripped)))))

----------------------------------------------------------------------------
(* Section extractor: SECProcessor._extract_sections *)

\* start_nodes_info built from the items before the first one that does
\* not resolve
StartNodesInfo_StopAtUnresolved(soup, toc) ==
    LET all == [i \in 1..Len(toc) |->
                   [item |-> toc[i], start |-> FindSectionStartElement(soup, toc[i])]]
        bad == {i \in 1..Len(toc) : all[i].start = NoPath}
    IN  IF bad = {} THEN all ELSE SubSeq(all, 1, Least(bad) - 1)

\* start_nodes_info: the items whose start node resolves, with that node
StartNodesInfo(soup, toc) ==
    SelectSeq([i \in 1..Len(toc) |->
                  [item |-> toc[i], start |-> FindSectionStartElement(soup, toc[i])]],
              LAMBDA e : e.start # NoPath)

\* end_node of entry i: the start node of the next entry
EndNode(soup, infos, i) ==
    IF i + 1 <= Len(infos) THEN Some(NodeAt(soup, infos[i + 1].start)) ELSE None

Section(item, content) ==
    [item_number |-> item.item_number, title |-> item.title, content |-> content]

\* cleaned_content of entry i
CleanedContent(soup, infos, i) ==
    Let(ExtractContentBetween(soup, infos[i].start, EndNode(soup, infos, i)),
        LAMBDA content : CleanSectionContent(content))

\* the section loop without its test of cleaned_content: an entry whose
\* content cleans to nothing gets a Section too
SectionsOf_KeepEmpty(soup, infos) ==
    [i \in 1..Len(infos) |-> Section(infos[i].item, CleanedContent(soup, infos, i))]

\* the sections of the entries that keep content after cleaning
SectionsOf(soup, infos) ==
    LET all == [i \in 1..Len(infos) |-> Section(infos[i].item, CleanedContent(soup, infos, i))]
    IN  SelectSeq(all, LAMBDA s : s.content # << >>)

\* _extract_sections(soup, toc)
ExtractSections(soup, toc) == SectionsOf(soup, StartNodesInfo(soup, toc))

----------------------------------------------------------------------------
(* State *)

VARIABLES
    f_text,        \* _chunk_text / _section_to_chunks: the text argument
    f_chunk_size,  \* _chunk_text: chunk_size
    f_overlap,     \* _chunk_text: overlap
    f_cli,         \* the processor's chunk_long_items
    f_pc,          \* "input", then "chunked" or "emitted"
    f_packed,      \* _chunk_text: chunks, as paragraph lists
    f_final,       \* _chunk_text: what each packed chunk added to final_chunks
    f_chunks,      \* _chunk_text: the returned final_chunks
    f_text_chunks, \* _section_to_chunks: text_chunks
    f_emitted,     \* _section_to_chunks: the returned chunks_data
    d_pc,          \* process_document: where the call stands
    d_filepath,    \* process_document: filepath
    d_file,        \* what the file system holds at filepath
    d_company,     \* process_document: company
    d_year,        \* process_document: year
    d_cli,         \* self.chunk_long_items
    d_filename,    \* process_document: filename
    d_soup,        \* process_document: soup
    d_toc,         \* process_document: toc
    d_infos,       \* _extract_sections: start_nodes_info
    d_sections,    \* process_document: sections
    d_sidx,        \* process_document: the section the chunk loop is at
    d_chunks,      \* process_document: chunks
    d_result,      \* what process_document returned
    d_fault,       \* the step at which an exception was raised, "" if none
    p_pc,          \* main: where the batch loop stands
    p_idx,         \* main: reports consumed by the loop
    p_ingest,      \* settings.ingest
    p_all_chunks,  \* main: all_chunks
    p_ingested,    \* the chunks written by ingestor.ingest_chunks
    t_self,        \* the attributes of each SECProcessor
    t_call,        \* the arguments of each invocation of process_document
    t_loc,         \* the locals of each invocation
    t_chunks,      \* the chunks lists, by owner
    c_pc,          \* _clean_section_content: "input", then "cleaned"
    c_text,        \* _clean_section_content: the text argument
    c_passes,      \* what each successive call of the cleaner returned
    r_pc,          \* boundary resolution: "input", "resolved", "extracted"
    r_soup,        \* the tree the resolver and the extractor are called on
    r_item,        \* _find_section_start_element: item
    r_start,       \* the start node it returned, as a path
    r_end,         \* _extract_content_between: end_node, as a path
    r_content,     \* _extract_content_between: the returned text
    w_pc,          \* download_filing: "attempting", "sleeping", "returned", "raised"
    w_args,        \* download_filing: cik, filing_url, company, output_dir
    w_attempt,     \* tenacity: the attempt number of the call
    w_requests,    \* the URLs download_filing has passed to httpx.get, in order
    w_response,    \* download_filing: response
    w_outcome,     \* what the decorated download_filing returned or raised
    w_dirs,        \* the directories of the file system
    w_files,       \* the files of the file system: path and content
    w_fetch,       \* fetch_sec_filings: its arguments, locals and outcome
    s_pc,          \* _chunk_text step by step: "input", "for", "while", "returned"
    s_text,        \* _chunk_text: text
    s_chunk_size,  \* _chunk_text: chunk_size
    s_overlap,     \* _chunk_text: overlap
    s_chunks,      \* _chunk_text: chunks
    s_idx,         \* _chunk_text: chunks consumed by the loop over chunks
    s_start,       \* _chunk_text: start
    s_iters,       \* iterations of the while loop on the current chunk
    s_final,       \* _chunk_text: final_chunks
    m_pc,          \* _make_snippets_from_text: "input", "returned"
    m_args,        \* _make_snippets_from_text: text, k, min_len, max_len
    m_snippets,    \* _make_snippets_from_text: the list returned
    g_at,          \* riskbot graph: the node that runs next, or where the run stands
    g_state,       \* riskbot graph: the ConversationState
    g_labelled,    \* the question the router's label was made for
    g_path,        \* the nodes that have run, in order
    a_pc,          \* BaseAPIClient._get: "attempting", "returned", "raised"
    a_request,     \* BaseAPIClient._get: path and params
    a_attempt,     \* tenacity: attempt_number of the call
    a_sent,        \* the requests sent to the server by the call
    a_outcome,     \* what the call handed to its caller
    a_calls        \* how many calls of _get have been made

fvars == <<f_text, f_chunk_size, f_overlap, f_cli, f_pc, f_packed, f_final,
           f_chunks, f_text_chunks, f_emitted>>

dvars == <<d_pc, d_filepath, d_file, d_company, d_year, d_cli, d_filename,
           d_soup, d_toc, d_infos, d_sections, d_sidx, d_chunks, d_result, d_fault>>

pvars == <<p_pc, p_idx, p_ingest, p_all_chunks, p_ingested>>

tvars == <<t_self, t_call, t_loc, t_chunks>>

cvars == <<c_pc, c_text, c_passes>>

rvars == <<r_pc, r_soup, r_item, r_start, r_end, r_content>>

wvars == <<w_pc, w_args, w_attempt, w_requests, w_response, w_outcome, w_dirs,
           w_files, w_fetch>>

svars == <<s_pc, s_text, s_chunk_size, s_overlap, s_chunks, s_idx, s_start, s_iters,
           s_final>>

mvars == <<m_pc, m_args, m_snippets>>

gvars == <<g_at, g_state, g_labelled, g_path>>

avars == <<a_pc, a_request, a_attempt, a_sent, a_outcome, a_calls>>

vars == <<fvars, dvars, pvars, tvars, cvars, rvars, wvars, svars, mvars, gvars, avars>>

\* no function-level call is under way
FIdle ==
    /\ f_text = << >> /\ f_chunk_size = 0 /\ f_overlap = 0 /\ f_cli = TRUE
    /\ f_pc = "idle" /\ f_packed = << >> /\ f_final = << >> /\ f_chunks = << >>
    /\ f_text_chunks = << >> /\ f_emitted = << >>

\* the locals of process_document before anything is assigned
DLocalsFresh ==
    /\ d_filename = << >> /\ d_soup = << >> /\ d_toc = << >> /\ d_infos = << >>
    /\ d_sections = << >> /\ d_sidx = 0 /\ d_chunks = << >> /\ d_result = << >>
    /\ d_fault = ""

\* no call of process_document is under way
DIdle ==
    /\ d_pc = "idle" /\ d_filepath = << >> /\ d_file = [status |-> "none", tree |-> << >>]
    /\ d_company = "" /\ d_year = 0 /\ d_cli = TRUE
    /\ DLocalsFresh

\* no batch run is under way
PIdle ==
    /\ p_pc = "idle" /\ p_idx = 0 /\ p_ingest = FALSE
    /\ p_all_chunks = << >> /\ p_ingested = << >>

\* no processor is shared by several invocations
TIdle ==
    /\ t_self = << >> /\ t_call = << >> /\ t_loc = << >> /\ t_chunks = << >>

\* no call of the cleaner is under way
CIdle == c_pc = "idle" /\ c_text = << >> /\ c_passes = << >>

\* no function-level call of the resolver or the extractor is under way
RIdle ==
    /\ r_pc = "idle" /\ r_soup = << >> /\ r_item = << >> /\ r_start = << >>
    /\ r_end = << >> /\ r_content = << >>

\* no download is under way
WIdle ==
    /\ w_pc = "idle" /\ w_args = << >> /\ w_attempt = 0 /\ w_requests = << >>
    /\ w_response = << >> /\ w_outcome = << >> /\ w_dirs = {} /\ w_files = {}
    /\ w_fetch = << >>

\* no step-by-step call of _chunk_text is under way
SIdle ==
    /\ s_pc = "idle" /\ s_text = << >> /\ s_chunk_size = 0 /\ s_overlap = 0
    /\ s_chunks = << >> /\ s_idx = 0 /\ s_start = 0 /\ s_iters = 0 /\ s_final = << >>

\* no call of _make_snippets_from_text is under way
MIdle == m_pc = "idle" /\ m_args = << >> /\ m_snippets = << >>

\* no run of the riskbot graph is under way
GIdle == g_at = "idle" /\ g_state = << >> /\ g_labelled = << >> /\ g_path = << >>

\* no call of BaseAPIClient._get is under way
AIdle ==
    /\ a_pc = "idle" /\ a_request = << >> /\ a_attempt = 0 /\ a_sent = << >>
    /\ a_outcome = << >> /\ a_calls = 0

----------------------------------------------------------------------------
(* The chunker as a function: inputs drawn from bounded sets *)

MaxParas == 3

\* paragraph k of an input text is a run of the k-th of these letters
ParaLetter == <<"x", "y", "z", "w", "q">>

\* chunk_size and overlap settings with paragraph lengths that straddle them:
\* the defaults, a small setting, overlap >= chunk_size, and overlap = 0
Profiles ==
    { [cs |-> DefaultChunkSize, ov |-> DefaultOverlap, lens |-> {150, 700, 1400, 2000}],
      [cs |-> 10, ov |-> 3, lens |-> {2, 3, 9, 14}],
      [cs |-> 4, ov |-> 6, lens |-> {1, 3, 7}],
      [cs |-> 5, ov |-> 0, lens |-> {2, 6, 8}] }

\* what separates the paragraphs of an input text
Separators == {NL2, Str(<<"\n", " ", "\n">>), Rep("\n", 3), Str(<<" ", "\n">>)}

\* what an input text may start with
Leads == {<< >>, Rep(" ", 1)}

LenSeqs(lens) == UNION {[1..n -> lens] : n \in 1..MaxParas}

MakeText(lead, sep, ls) ==
    TCat(lead, TJoin(sep, [i \in 1..Len(ls) |-> Rep(ParaLetter[i], ls[i])]))

TheSection(content) ==
    [item_number |-> "Item 1A", title |-> "Risk Factors", content |-> content]

FInit ==
    /\ \E p \in Profiles, lead \in Leads, sep \in Separators :
         \E ls \in LenSeqs(p.lens) :
            /\ f_text = MakeText(lead, sep, ls)
            /\ f_chunk_size = p.cs
            /\ f_overlap = p.ov
    /\ f_cli \in BOOLEAN
    /\ f_pc = "input"
    /\ f_packed = << >>
    /\ f_final = << >>
    /\ f_chunks = << >>
    /\ f_text_chunks = << >>
    /\ f_emitted = << >>
    /\ DIdle
    /\ PIdle
    /\ TIdle
    /\ CIdle
    /\ RIdle
    /\ WIdle
    /\ SIdle
    /\ MIdle
    /\ GIdle
    /\ AIdle

\* a call of _chunk_text(f_text, f_chunk_size, f_overlap)
CallChunkText ==
    /\ f_pc = "input"
    /\ f_pc' = "chunked"
    /\ f_packed' = IF f_text = << >> THEN << >>
                   ELSE PackedChunks(f_text, f_chunk_size, f_overlap)
    /\ f_final' = [k \in 1..Len(f_packed') |->
                     FinalOf(JoinParagraphs(f_packed'[k].paras),
                             f_chunk_size, f_overlap)]
    /\ f_chunks' = ChunkText(f_text, f_chunk_size, f_overlap)
    /\ UNCHANGED <<f_text, f_chunk_size, f_overlap, f_cli, f_text_chunks, f_emitted>>
    /\ UNCHANGED <<dvars, pvars, tvars, cvars, rvars, wvars, svars, mvars, gvars, avars>>

\* a call of _section_to_chunks on a Section whose content is f_text
CallSectionToChunks ==
    /\ f_pc = "input"
    /\ f_pc' = "emitted"
    /\ f_text_chunks' = ChunkText(f_text, DefaultChunkSize, DefaultOverlap)
    /\ f_emitted' = SectionToChunks(TheSection(f_text), "AAPL", 2024, "aapl.htm", f_cli)
    /\ UNCHANGED <<f_text, f_chunk_size, f_overlap, f_cli, f_packed, f_final, f_chunks>>
    /\ UNCHANGED <<dvars, pvars, tvars, cvars, rvars, wvars, svars, mvars, gvars, avars>>

FNext == CallChunkText \/ CallSectionToChunks

ChunkSpec == FInit /\ [][FNext]_vars

----------------------------------------------------------------------------
(* Properties of the chunker *)

\* t with every whitespace character removed
StripAllWs(t) == Norm(SelectSeq(t, LAMBDA r : ~IsSpace(r.c)))

RECURSIVE FreshParagraphs(_, _)
\* the paragraphs of the packed chunks from chunk k on, without the overlap
\* paragraphs each chunk was started with
FreshParagraphs(packed, k) ==
    IF k > Len(packed) THEN << >>
    ELSE SubSeq(packed[k].paras, packed[k].seed + 1, Len(packed[k].paras))
         \o FreshParagraphs(packed, k + 1)

RECURSIVE Flatten(_)
Flatten(ss) == IF ss = << >> THEN << >> ELSE ss[1] \o Flatten(Tail(ss))

RECURSIVE WindowStart(_, _, _)
\* offset of the w-th window of a force-split chunk
WindowStart(w, cs, ov) ==
    IF w = 1 THEN 0 ELSE NextStart(WindowStart(w - 1, cs, ov), cs, ov)

\* the windows wins, laid at their offsets, cover chunk without a gap
WindowsCover(chunk, wins, cs, ov) ==
    /\ wins # << >>
    /\ \A w \in 1..Len(wins) :
         LET o == WindowStart(w, cs, ov)
         IN  /\ wins[w] # << >>
             /\ wins[w] = TSlice(chunk, o, o + TLen(wins[w]))
             /\ w < Len(wins) => WindowStart(w + 1, cs, ov) <= o + TLen(wins[w])
             /\ w = Len(wins) => o + TLen(wins[w]) = TLen(chunk)

\* C3: chunking never drops content.  Every paragraph of the text is, whole
\* and in order, one of the paragraphs the packed chunks hold (the overlap
\* paragraphs a chunk starts with aside), so no non-blank character is lost
\* by packing; every packed chunk that is force-split is covered without a
\* gap by its windows, each window being the slice of the chunk at its
\* offset; and what _section_to_chunks emits for the section holds every
\* non-blank character of the section text.
Thm_C3_NoContentDropped ==
    /\ f_pc = "chunked" =>
         /\ FreshParagraphs(f_packed, 1) = Paragraphs(f_text)
         /\ StripAllWs(TJoin(<< >>, FreshParagraphs(f_packed, 1))) = StripAllWs(f_text)
         /\ \A k \in 1..Len(f_packed) :
              LET chunk == JoinParagraphs(f_packed[k].paras)
              IN  IF Oversized(TLen(chunk), f_chunk_size)
                  THEN WindowsCover(chunk, f_final[k], f_chunk_size, f_overlap)
                  ELSE f_final[k] = <<chunk>>
         /\ f_chunks = Flatten(f_final)
    /\ f_pc = "emitted" =>
         /\ Len(f_emitted) = 1 =>
              StripAllWs(f_emitted[1].text) = StripAllWs(f_text)
         /\ Len(f_emitted) > 1 =>
              [i \in 1..Len(f_emitted) |-> f_emitted[i].text] = f_text_chunks
         /\ f_emitted = << >> => StripAllWs(f_text) = << >>

\* C3 witness: a text of several paragraphs was packed into several chunks,
\* one started with an overlap paragraph and one force-split into windows
Wit_C3_PackedAndForceSplit ==
    /\ f_pc = "chunked"
    /\ Len(f_packed) >= 2
    /\ \E k \in 1..Len(f_packed) : f_packed[k].seed >= 1
    /\ \E k \in 1..Len(f_final) :
         /\ Len(f_final[k]) >= 2
         /\ Len(f_packed[k].paras) >= 2

\* the last k characters of t
Suffix(t, k) == TSlice(t, TLen(t) - k, TLen(t))

\* some non-empty end of a is a beginning of b
SharesOverlap(a, b) ==
    \E k \in 1..Min(TLen(a), TLen(b)) : Suffix(a, k) = TSlice(b, 0, k)

\* packed chunk k of f_packed was force-split
WasForceSplit(k) == Len(f_final[k]) > 1

\* the last j paragraphs of ps
LastParas(ps, j) == SubSeq(ps, Len(ps) - j + 1, Len(ps))

WindowOverlap(cs, ov) == IF ov < cs THEN ov ELSE cs - 1

----------------------------------------------------------------------------
(* process_document, step by step *)

\* the except clause of process_document, were it to hand back the chunks
\* built so far
HandleException_Partial(chunks) == chunks

\* the except clause of process_document (processor.py 62-64): return []
HandleException(chunks) == << >>

\* the return statements of process_document
Return(value) ==
    /\ d_result' = value
    /\ d_pc' = "returned"

\* filename = os.path.basename(filepath); the try block is entered
Enter ==
    /\ d_pc = "start"
    /\ d_filename' = Basename(d_filepath)
    /\ d_pc' = "load"
    /\ UNCHANGED <<d_filepath, d_file, d_company, d_year, d_cli, d_soup, d_toc,
                   d_infos, d_sections, d_sidx, d_chunks, d_result, d_fault>>
    /\ UNCHANGED <<fvars, pvars, tvars, cvars, rvars, wvars, svars, mvars, gvars, avars>>

\* soup = self._load_html(filepath); return [] when it is None
LoadStep ==
    /\ d_pc = "load"
    /\ LET soup == LoadHtml(d_file)
       IN  IF soup.some
           THEN d_soup' = soup.val /\ d_pc' = "toc" /\ UNCHANGED d_result
           ELSE Return(<< >>) /\ UNCHANGED d_soup
    /\ UNCHANGED <<d_filepath, d_file, d_company, d_year, d_cli, d_filename, d_toc,
                   d_infos, d_sections, d_sidx, d_chunks, d_fault>>
    /\ UNCHANGED <<fvars, pvars, tvars, cvars, rvars, wvars, svars, mvars, gvars, avars>>

\* toc = self._extract_table_of_contents(soup); return [] when it is empty
TocStep ==
    /\ d_pc = "toc"
    /\ d_toc' = ExtractTableOfContents(d_soup)
    /\ IF d_toc' = << >> THEN Return(<< >>) ELSE d_pc' = "sections" /\ UNCHANGED d_result
    /\ UNCHANGED <<d_filepath, d_file, d_company, d_year, d_cli, d_filename, d_soup,
                   d_infos, d_sections, d_sidx, d_chunks, d_fault>>
    /\ UNCHANGED <<fvars, pvars, tvars, cvars, rvars, wvars, svars, mvars, gvars, avars>>

\* sections = self._extract_sections(soup, toc); chunks = []
SectionsStep ==
    /\ d_pc = "sections"
    /\ d_infos' = StartNodesInfo(d_soup, d_toc)
    /\ d_sections' = SectionsOf(d_soup, d_infos')
    /\ d_chunks' = << >>
    /\ d_sidx' = 1
    /\ d_pc' = "chunk"
    /\ UNCHANGED <<d_filepath, d_file, d_company, d_year, d_cli, d_filename, d_soup,
                   d_toc, d_result, d_fault>>
    /\ UNCHANGED <<fvars, pvars, tvars, cvars, rvars, wvars, svars, mvars, gvars, avars>>

\* one turn of the loop: chunks.extend(self._section_to_chunks(...))
ChunkStep ==
    /\ d_pc = "chunk"
    /\ d_sidx <= Len(d_sections)
    /\ d_chunks' = d_chunks \o SectionToChunks(d_sections[d_sidx], d_company, d_year,
                                               d_filename, d_cli)
    /\ d_sidx' = d_sidx + 1
    /\ UNCHANGED <<d_pc, d_filepath, d_file, d_company, d_year, d_cli, d_filename,
                   d_soup, d_toc, d_infos, d_sections, d_result, d_fault>>
    /\ UNCHANGED <<fvars, pvars, tvars, cvars, rvars, wvars, svars, mvars, gvars, avars>>

\* return chunks
ReturnStep ==
    /\ d_pc = "chunk"
    /\ d_sidx > Len(d_sections)
    /\ Return(d_chunks)
    /\ UNCHANGED <<d_filepath, d_file, d_company, d_year, d_cli, d_filename, d_soup,
                   d_toc, d_infos, d_sections, d_sidx, d_chunks, d_fault>>
    /\ UNCHANGED <<fvars, pvars, tvars, cvars, rvars, wvars, svars, mvars, gvars, avars>>

\* an Exception raised by whatever the try block is doing reaches the
\* except clause
Fault ==
    /\ d_pc \in {"toc", "sections", "chunk"}
    /\ d_fault' = d_pc
    /\ Return(HandleException(d_chunks))
    /\ UNCHANGED <<d_filepath, d_file, d_company, d_year, d_cli, d_filename, d_soup,
                   d_toc, d_infos, d_sections, d_sidx, d_chunks>>
    /\ UNCHANGED <<fvars, pvars, tvars, cvars, rvars, wvars, svars, mvars, gvars, avars>>

DocNext ==
    Enter \/ LoadStep \/ TocStep \/ SectionsStep \/ ChunkStep \/ ReturnStep \/ Fault

----------------------------------------------------------------------------
(* Documents the processor is run on *)

\* the most links a table of contents holds
MaxLinks == 3

Link(text, href) == Elem("a", << >>, << >>, href, FALSE, <<TextNode(text)>>)

Block(name, text) == Elem(name, << >>, << >>, << >>, FALSE, <<TextNode(text)>>)

\* <a name=...></a>
NamedAnchor(nm) == Elem("a", << >>, nm, << >>, FALSE, << >>)

\* <a id=...></a>
IdAnchor(id) == Elem("a", id, << >>, << >>, FALSE, << >>)

A1 == Str(<<"a", "1">>)

A2 == Str(<<"a", "2">>)

Hash(t) == TCat(Rep("#", 1), t)

\* the links a table of contents is made of: two spellings of Item 1A, the
\* second with an anchor that is nowhere in the document; Item 1B; and
\* Item 7, which no document of the family has
LinkKinds ==
    { Link(LitItem1A, Hash(A1)),
      Link(Str(<<"I", "T", "E", "M", " ", "1", "A", ".">>), Hash(Str(<<"x", "1">>))),
      Link(Str(<<" ", "I", "t", "e", "m", " ", "1", "B">>), Hash(A2)),
      Link(Str(<<"I", "t", "e", "m", " ", "7">>), Hash(Str(<<"a", "7">>))) }

HomeLink == Link(Str(<<"H", "o", "m", "e">>), Hash(Str(<<"t", "o", "p">>)))

Container(name, hidden, kids) == Elem(name, << >>, << >>, << >>, hidden, kids)

LinkSeqs ==
    UNION {{ls \in [1..n -> LinkKinds] : \A i, j \in 1..n : i # j => ls[i] # ls[j]} :
             n \in 1..MaxLinks}

First2 == <<Link(LitItem1A, Hash(A1)), Link(Str(<<" ", "I", "t", "e", "m", " ", "1", "B">>), Hash(A2))>>

\* what precedes the body: nothing, a table of links, a block of links that
\* name no item (alone, or before the table), links inside elements the
\* loader removes, and two tables
TocParts ==
    {<< >>}
    \cup {<<Container("table", FALSE, ls)>> : ls \in LinkSeqs}
    \cup {<<Container("div", FALSE, <<HomeLink>>)>>,
          <<Container("div", FALSE, <<HomeLink>>), Container("table", FALSE, First2)>>,
          <<Container("nav", FALSE, <<Link(Str(<<"I", "t", "e", "m", " ", "7">>), Hash(A2))>>),
            Container("div", TRUE, <<Link(Str(<<"I", "t", "e", "m", " ", "9">>), Hash(A1))>>),
            Block("script", Str(<<"I", "t", "e", "m", " ", "8">>)),
            Container("ul", FALSE, First2)>>,
          <<Container("table", FALSE, <<First2[1]>>), Container("ol", FALSE, <<First2[2]>>)>>}

Heading1A == Str(<<"I", "t", "e", "m", " ", "1", "A", ".", " ", "R", "i", "s", "k">>)

Heading1B == Str(<<"I", "t", "e", "m", " ", "1", "B">>)

\* the lengths of the two section bodies: a line the cleaner drops, a body
\* at and just over 1.3 * chunk_size, and longer ones
BodyLens == {<<5, 1200>>, <<1950, 1200>>, <<1951, 3000>>, <<3000, 1200>>}

\* <a name=a1></a><p><b>Item 1A. Risk</b></p><p>x..x</p> <a id=a2></a>
\* <a name=zz></a><h2 id=h>Item 1B</h2><p>y..y</p>
FlatBody(l1, l2) ==
    << NamedAnchor(A1),
       Container("p", FALSE, <<Block("b", Heading1A)>>),
       Block("p", Rep("x", l1)),
       TextNode(Rep("\n", 1)),
       IdAnchor(A2),
       NamedAnchor(Str(<<"z", "z">>)),
       Elem("h2", Str(<<"h">>), << >>, << >>, FALSE, <<TextNode(Heading1B)>>),
       Block("p", Rep("y", l2)) >>

\* the start node of Item 1B sits inside a <div>
NestedEndBody ==
    << NamedAnchor(A1),
       Block("h3", Heading1A),
       Block("p", Rep("x", 1200)),
       Container("div", FALSE,
                 <<Elem("h2", A2, << >>, << >>, FALSE, <<TextNode(Heading1B)>>),
                   Block("p", Rep("y", 1200))>>),
       Block("p", Rep("z", 30)) >>

\* a heading equal to the one that starts Item 1B is quoted inside Item 1A
QuotedHeadingBody ==
    << NamedAnchor(A1),
       Block("h3", Heading1A),
       Block("p", Rep("x", 1200)),
       Block("h2", Heading1B),
       Block("p", Rep("w", 2000)),
       IdAnchor(A2),
       Block("h2", Heading1B),
       Block("p", Rep("y", 1200)) >>

\* no anchor, no heading: an item token of 20 characters or more, prose
NoiseBody ==
    << Block("p", TCat(TCat(Str(<<"I", "t", "e", "m">>), Rep(" ", 15)), Str(<<"2">>))),
       Block("p", Rep("z", 30)) >>

Bodies ==
    {FlatBody(ls[1], ls[2]) : ls \in BodyLens}
    \cup {NestedEndBody, QuotedHeadingBody, NoiseBody}

Trees == {toc \o body : toc \in TocParts, body \in Bodies}

PathA == Str(<<"d", "/", "1", "0", "K", "/", "a", ".", "h", "t", "m">>)

PathQ == Str(<<"q", ".", "h", "t", "m">>)

PathDir == Str(<<"d", "/">>)

OkFile(tree) == [status |-> "ok", tree |-> tree]

\* a file that does not exist, and one that cannot be read or parsed
BadFiles == {[status |-> "missing", tree |-> << >>],
             [status |-> "unreadable", tree |-> << >>]}

\* a few documents met again under a second path, company and year
SmallTrees ==
    {<<Container("table", FALSE, First2)>> \o FlatBody(1951, 3000),
     FlatBody(1950, 1200),
     NoiseBody}

\* the calls of process_document
Calls ==
    {[filepath |-> PathA, file |-> OkFile(t), company |-> "AAPL", year |-> 2023] :
        t \in Trees}
    \cup {[filepath |-> PathQ, file |-> OkFile(t), company |-> "QCOM", year |-> 2024] :
             t \in SmallTrees}
    \cup {[filepath |-> p, file |-> f, company |-> "BAC", year |-> 2024] :
             p \in {PathA, PathQ}, f \in BadFiles}
    \cup {[filepath |-> PathDir, file |-> [status |-> "unreadable", tree |-> << >>],
           company |-> "BAC", year |-> 2024]}

\* process_document is called
CallWith(filepath, file, company, year, cli) ==
    /\ d_pc = "start"
    /\ d_filepath = filepath
    /\ d_file = file
    /\ d_company = company
    /\ d_year = year
    /\ d_cli = cli
    /\ DLocalsFresh

Init ==
    /\ \E call \in Calls, cli \in BOOLEAN :
          CallWith(call.filepath, call.file, call.company, call.year, cli)
    /\ FIdle
    /\ PIdle
    /\ TIdle
    /\ CIdle
    /\ RIdle
    /\ WIdle
    /\ SIdle
    /\ MIdle
    /\ GIdle
    /\ AIdle

Next == DocNext

Spec == Init /\ [][Next]_vars

----------------------------------------------------------------------------
(* The batch loop of the pipeline: main() *)

\* the most reports the loop goes through
MaxReports == 2

\* downloaded_reports entries: company, local_path and what the file
\* system holds there; an entry without a path is skipped
Reports ==
    { [company |-> "AAPL", local_path |-> PathA,
       file |-> OkFile(<<Container("table", FALSE, First2)>> \o FlatBody(1951, 3000))],
      [company |-> "QCOM", local_path |-> PathQ, file |-> OkFile(FlatBody(1950, 1200))],
      [company |-> "BAC", local_path |-> PathQ, file |-> OkFile(NoiseBody)],
      [company |-> "BAC", local_path |-> PathA,
       file |-> OkFile(<<Container("div", FALSE, <<HomeLink>>)>> \o NoiseBody)],
      [company |-> "BAC", local_path |-> PathA,
       file |-> [status |-> "missing", tree |-> << >>]],
      [company |-> "BAC", local_path |-> << >>, file |-> [status |-> "none", tree |-> << >>]] }

\* settings.report_year
ReportYear == 2024

\* ingest_chunks writes chunk by chunk, so an empty list is not a way
\* to fail; here it is taken to be one
IngestMayFail_Always(chunks) == TRUE

\* ingest_chunks can fail only in a write, and it writes once per chunk
IngestMayFail(chunks) == chunks # << >>

PInit ==
    /\ p_pc = "loop"
    /\ p_idx = 0
    /\ p_ingest \in BOOLEAN
    /\ p_all_chunks = << >>
    /\ p_ingested = << >>
    /\ DIdle
    /\ FIdle
    /\ TIdle
    /\ CIdle
    /\ RIdle
    /\ WIdle
    /\ SIdle
    /\ MIdle
    /\ GIdle
    /\ AIdle

\* the head of the loop: the next report is skipped when it has no path,
\* otherwise processor.process_document is called
NextReport ==
    /\ p_pc = "loop"
    /\ p_idx < MaxReports
    /\ \E r \in Reports :
          IF r.local_path = << >>
          THEN /\ p_idx' = p_idx + 1
               /\ UNCHANGED <<p_pc, dvars>>
          ELSE /\ p_pc' = "call"
               /\ d_pc' = "start"
               /\ d_filepath' = r.local_path
               /\ d_file' = r.file
               /\ d_company' = r.company
               /\ d_year' = ReportYear
               /\ d_cli' = TRUE
               /\ d_filename' = << >> /\ d_soup' = << >> /\ d_toc' = << >>
               /\ d_infos' = << >> /\ d_sections' = << >> /\ d_sidx' = 0
               /\ d_chunks' = << >> /\ d_result' = << >> /\ d_fault' = ""
               /\ UNCHANGED p_idx
    /\ UNCHANGED <<p_ingest, p_all_chunks, p_ingested, fvars, tvars, cvars, rvars, wvars, svars, mvars, gvars, avars>>

\* the call returned: all_chunks.extend(chunks) and, when settings.ingest,
\* ingestor.ingest_chunks(chunks), which main lets fail
Collect ==
    /\ p_pc = "call"
    /\ d_pc = "returned"
    /\ d_pc' = "idle"
    /\ p_all_chunks' = p_all_chunks \o d_result
    /\ \/ /\ p_pc' = "loop"
          /\ p_idx' = p_idx + 1
          /\ p_ingested' = IF p_ingest THEN p_ingested \o d_result ELSE p_ingested
       \/ /\ p_ingest
          /\ IngestMayFail(d_result)
          /\ \E k \in 0..Max(Len(d_result) - 1, 0) :
                p_ingested' = p_ingested \o SubSeq(d_result, 1, k)
          /\ p_pc' = "crashed"
          /\ UNCHANGED p_idx
    /\ UNCHANGED <<d_filepath, d_file, d_company, d_year, d_cli, d_filename, d_soup,
                   d_toc, d_infos, d_sections, d_sidx, d_chunks, d_result, d_fault>>
    /\ UNCHANGED <<p_ingest, fvars, tvars, cvars, rvars, wvars, svars, mvars, gvars, avars>>

\* downloaded_reports is exhausted
Finish ==
    /\ p_pc = "loop"
    /\ p_pc' = "done"
    /\ UNCHANGED <<p_idx, p_ingest, p_all_chunks, p_ingested, dvars, fvars, tvars, cvars, rvars, wvars, svars, mvars, gvars, avars>>

PNext == NextReport \/ Collect \/ Finish \/ DocNext

PipeSpec == PInit /\ [][PNext]_vars

----------------------------------------------------------------------------
(* Several invocations of process_document, on one processor or on two *)

\* the most invocations under way together
MaxInvocations == 2

Invocations == 1..MaxInvocations

\* the processors: SECProcessor() and SECProcessor(chunk_long_items=False)
Processors == {1, 2}

\* SECProcessor.__init__: the attributes process_document reads
NewProcessor(chunk_long_items) == [chunk_long_items |-> chunk_long_items]

\* the arguments of an invocation and the processor it is made on
ParCalls ==
    {[proc |-> p, filepath |-> c.filepath, file |-> c.file, company |-> c.company,
      year |-> c.year] :
        p \in Processors,
        c \in {[filepath |-> PathA, company |-> "AAPL", year |-> 2023,
                file |-> OkFile(<<Container("table", FALSE, First2)>>
                                   \o FlatBody(1951, 3000))],
               [filepath |-> PathQ, company |-> "QCOM", year |-> 2024,
                file |-> OkFile(FlatBody(1950, 1200))]}}

\* the locals of an invocation before anything is assigned
FreshLocals ==
    [pc |-> "start", filename |-> << >>, soup |-> << >>, toc |-> << >>,
     sections |-> << >>, sidx |-> 0, result |-> << >>, fault |-> ""]

\* chunks = [], were the list an attribute of the processor: owner 0 is
\* shared by every invocation
ChunksOwner_Processor(i) == 0

\* chunks = [] (processor.py 55): the list is a local of the invocation
ChunksOwner(i) == i

TInit ==
    /\ t_self = [p \in Processors |-> NewProcessor(p = 1)]
    /\ t_call \in [Invocations -> ParCalls]
    /\ t_loc = [i \in Invocations |-> FreshLocals]
    /\ t_chunks = [o \in 0..MaxInvocations |-> << >>]
    /\ FIdle
    /\ DIdle
    /\ PIdle
    /\ CIdle
    /\ RIdle
    /\ WIdle
    /\ SIdle
    /\ MIdle
    /\ GIdle
    /\ AIdle

\* invocation i returns value
TReturned(i, value, fault) ==
    t_loc' = [t_loc EXCEPT ![i].pc = "returned", ![i].result = value,
                           ![i].fault = fault]

\* filename = os.path.basename(filepath); the try block is entered
TEnter(i) ==
    /\ t_loc[i].pc = "start"
    /\ t_loc' = [t_loc EXCEPT ![i].pc = "load",
                              ![i].filename = Basename(t_call[i].filepath)]
    /\ UNCHANGED <<t_self, t_call, t_chunks>>
    /\ UNCHANGED <<fvars, dvars, pvars, cvars, rvars, wvars, svars, mvars, gvars, avars>>

\* soup = self._load_html(filepath); return [] when it is None
TLoad(i) ==
    /\ t_loc[i].pc = "load"
    /\ LET soup == LoadHtml(t_call[i].file)
       IN  IF soup.some
           THEN t_loc' = [t_loc EXCEPT ![i].pc = "toc", ![i].soup = soup.val]
           ELSE TReturned(i, << >>, "")
    /\ UNCHANGED <<t_self, t_call, t_chunks>>
    /\ UNCHANGED <<fvars, dvars, pvars, cvars, rvars, wvars, svars, mvars, gvars, avars>>

\* toc = self._extract_table_of_contents(soup); return [] when it is empty
TToc(i) ==
    /\ t_loc[i].pc = "toc"
    /\ LET toc == ExtractTableOfContents(t_loc[i].soup)
       IN  IF toc = << >>
           THEN TReturned(i, << >>, "")
           ELSE t_loc' = [t_loc EXCEPT ![i].pc = "sections", ![i].toc = toc]
    /\ UNCHANGED <<t_self, t_call, t_chunks>>
    /\ UNCHANGED <<fvars, dvars, pvars, cvars, rvars, wvars, svars, mvars, gvars, avars>>

\* sections = self._extract_sections(soup, toc); chunks = []
TSections(i) ==
    /\ t_loc[i].pc = "sections"
    /\ t_loc' = [t_loc EXCEPT ![i].pc = "chunk", ![i].sidx = 1,
                    ![i].sections = ExtractSections(t_loc[i].soup, t_loc[i].toc)]
    /\ t_chunks' = [t_chunks EXCEPT ![ChunksOwner(i)] = << >>]
    /\ UNCHANGED <<t_self, t_call>>
    /\ UNCHANGED <<fvars, dvars, pvars, cvars, rvars, wvars, svars, mvars, gvars, avars>>

\* one turn of the loop: chunks.extend(self._section_to_chunks(...))
TChunk(i) ==
    /\ t_loc[i].pc = "chunk"
    /\ t_loc[i].sidx <= Len(t_loc[i].sections)
    /\ t_chunks' = [t_chunks EXCEPT ![ChunksOwner(i)] =
                       @ \o SectionToChunks(t_loc[i].sections[t_loc[i].sidx],
                                            t_call[i].company, t_call[i].year,
                                            t_loc[i].filename,
                                            t_self[t_call[i].proc].chunk_long_items)]
    /\ t_loc' = [t_loc EXCEPT ![i].sidx = @ + 1]
    /\ UNCHANGED <<t_self, t_call>>
    /\ UNCHANGED <<fvars, dvars, pvars, cvars, rvars, wvars, svars, mvars, gvars, avars>>

\* return chunks
TReturn(i) ==
    /\ t_loc[i].pc = "chunk"
    /\ t_loc[i].sidx > Len(t_loc[i].sections)
    /\ TReturned(i, t_chunks[ChunksOwner(i)], "")
    /\ UNCHANGED <<t_self, t_call, t_chunks>>
    /\ UNCHANGED <<fvars, dvars, pvars, cvars, rvars, wvars, svars, mvars, gvars, avars>>

\* an Exception raised inside the try block reaches the except clause
TFault(i) ==
    /\ t_loc[i].pc \in {"toc", "sections", "chunk"}
    /\ TReturned(i, HandleException(t_chunks[ChunksOwner(i)]), t_loc[i].pc)
    /\ UNCHANGED <<t_self, t_call, t_chunks>>
    /\ UNCHANGED <<fvars, dvars, pvars, cvars, rvars, wvars, svars, mvars, gvars, avars>>

\* the scheduler lets any invocation take its next step
TNext ==
    \E i \in Invocations :
        \/ TEnter(i)
        \/ TLoad(i)
        \/ TToc(i)
        \/ TSections(i)
        \/ TChunk(i)
        \/ TReturn(i)
        \/ TFault(i)

ParSpec == TInit /\ [][TNext]_vars

\* process_document(filepath, company, year) of a processor, run from call
\* to return with nothing else under way and no exception raised
ProcessDocument(self, call) ==
    Let(LoadHtml(call.file), LAMBDA soup :
        IF ~soup.some THEN << >>
        ELSE Let(ExtractTableOfContents(soup.val), LAMBDA toc :
                 IF toc = << >> THEN << >>
                 ELSE Let(ExtractSections(soup.val, toc), LAMBDA sections :
                          Concat([k \in 1..Len(sections) |->
                                     SectionToChunks(sections[k], call.company,
                                                     call.year,
                                                     Basename(call.filepath),
                                                     self.chunk_long_items)]))))

\* invocation i returned through a return statement of the try block
TReturnedNormally(i) == t_loc[i].pc = "returned" /\ t_loc[i].fault = ""

\* C11: however the steps of the invocations interleave, the processors keep
\* the attributes they were constructed with, every invocation that returns
\* without an exception returns what it returns when run alone, and two
\* invocations of one processor with the same arguments return the same
\* chunk list
Thm_C11_InvocationsIndependent ==
    /\ t_self = [p \in Processors |-> NewProcessor(p = 1)]
    /\ \A i \in Invocations :
          TReturnedNormally(i) =>
              t_loc[i].result = ProcessDocument(t_self[t_call[i].proc], t_call[i])
    /\ \A i, j \in Invocations :
          (TReturnedNormally(i) /\ TReturnedNormally(j) /\ t_call[i] = t_call[j]) =>
              t_loc[i].result = t_loc[j].result

\* C11 witness: an invocation returned several chunks while another one of
\* the same processor, started on another document, is midway through its
\* chunk loop and holds chunks of its own
Wit_C11_ReturnedWhileOtherChunking ==
    /\ TReturnedNormally(1)
    /\ Len(t_loc[1].result) > 1
    /\ t_call[2].proc = t_call[1].proc
    /\ t_call[2].filepath # t_call[1].filepath
    /\ t_loc[2].pc = "chunk"
    /\ t_loc[2].sidx = 2
    /\ t_loc[2].sidx <= Len(t_loc[2].sections)
    /\ t_chunks[ChunksOwner(2)] # << >>

----------------------------------------------------------------------------
(* The cleaner as a function, called again on its own result *)

\* the most lines an input text of the cleaner holds
MaxCleanLines == 2

\* the lines the input texts are made of: a long line, a line of ten
\* characters, a line of eight characters after four blanks, a line of twelve
\* characters with a stretch of blanks inside, a short line, an item header,
\* the boilerplate phrase as the cleaner looks for it, the phrase with two
\* blanks inside, and a signature
CleanLines ==
    { Rep("k", 15),
      Rep("t", 10),
      TCat(Rep(" ", 4), Rep("p", 8)),
      Concat(<<Rep("a", 5), Rep(" ", 6), Rep("b", 1)>>),
      Rep("c", 4),
      LitItem1A,
      TCat(LitForwardLooking, Str(<<" ", "a", "r", "e", " ", "h", "e", "r", "e">>)),
      Concat(<<TSlice(LitForwardLooking, 0, 16), Rep(" ", 1),
               TFrom(LitForwardLooking, 16)>>),
      TCat(Str(<<"/", "s", "/", " ">>), Rep("n", 6)) }

\* what separates the lines of an input text
CleanSeparators == {Rep("\n", 1), Rep("\n", 2), Rep("\n", 3)}

CleanTexts ==
    {TJoin(sep, ls) : sep \in CleanSeparators,
                      ls \in UNION {[1..n -> CleanLines] : n \in 1..MaxCleanLines}}

CInit ==
    /\ c_pc = "input"
    /\ c_text \in CleanTexts
    /\ c_passes = << >>
    /\ FIdle
    /\ DIdle
    /\ PIdle
    /\ TIdle
    /\ RIdle
    /\ WIdle
    /\ SIdle
    /\ MIdle
    /\ GIdle
    /\ AIdle

\* a call of _clean_section_content(c_text)
CallCleanSectionContent ==
    /\ c_pc = "input"
    /\ c_pc' = "cleaned"
    /\ c_passes' = <<CleanSectionContent(c_text)>>
    /\ UNCHANGED c_text
    /\ UNCHANGED <<fvars, dvars, pvars, tvars, rvars, wvars, svars, mvars, gvars, avars>>

\* a call of _clean_section_content on what the first call returned
CleanAgain ==
    /\ c_pc = "cleaned"
    /\ c_pc' = "recleaned"
    /\ c_passes' = Append(c_passes, CleanSectionContent(c_passes[1]))
    /\ UNCHANGED c_text
    /\ UNCHANGED <<fvars, dvars, pvars, tvars, rvars, wvars, svars, mvars, gvars, avars>>

CNext == CallCleanSectionContent \/ CleanAgain

CleanSpec == CInit /\ [][CNext]_vars

\* C12: the cleaner is idempotent: called on its own result it returns that
\* result, so a second pass removes no line and finds no boilerplate
Orig_C12_CleanerIdempotent ==
    c_pc = "recleaned" => c_passes[2] = c_passes[1]

----------------------------------------------------------------------------
(* The boundary resolver as a function: an anchor and what follows it *)

\* the most siblings that follow the anchor a TOC entry points to
MaxFollowers == 4

\* what may follow the anchor: an empty <a>, an <a> that holds only blanks,
\* a bare string, a link with text, a paragraph
FollowerKinds ==
    { NamedAnchor(Str(<<"z", "z">>)),
      Elem("a", << >>, << >>, << >>, FALSE, <<TextNode(Rep(" ", 2))>>),
      TextNode(Str(<<"w", "o", "r", "d", "s">>)),
      HomeLink,
      Block("p", Rep("y", 30)) }

FollowerSeqs == UNION {[1..n -> FollowerKinds] : n \in 0..MaxFollowers}

\* the anchor of the next item
ZZ == Str(<<"z", "z">>)

\* a <div> that holds the anchor of the next item and its first paragraph
NextItemDiv ==
    Container("div", FALSE, <<NamedAnchor(ZZ), Block("p", Rep("v", 30))>>)

\* the anchor and its followers at the top of the body, or inside a <div>
\* that a paragraph follows, or at the top of the body before a <div> that
\* holds the next item
ResolverTrees ==
    {<<Block("p", Rep("x", 30)), NamedAnchor(A1)>> \o fs : fs \in FollowerSeqs}
    \cup {<<Container("div", FALSE, <<NamedAnchor(A1)>> \o fs), Block("p", Rep("z", 30))>> :
             fs \in FollowerSeqs}
    \cup {<<Block("p", Rep("x", 30)), NamedAnchor(A1)>> \o fs
              \o <<NextItemDiv, Block("p", Rep("w", 30))>> : fs \in FollowerSeqs}

RInit ==
    /\ r_pc = "input"
    /\ r_soup \in ResolverTrees
    /\ r_item = TableOfContentsItem(LitItem1A, Some(Hash(A1)))
    /\ r_start = << >>
    /\ r_end = << >>
    /\ r_content = << >>
    /\ FIdle
    /\ DIdle
    /\ PIdle
    /\ TIdle
    /\ CIdle
    /\ WIdle
    /\ SIdle
    /\ MIdle
    /\ GIdle
    /\ AIdle

\* a call of _find_section_start_element(r_soup, r_item)
CallFindSectionStartElement ==
    /\ r_pc = "input"
    /\ r_pc' = "resolved"
    /\ r_start' = FindSectionStartElement(r_soup, r_item)
    /\ UNCHANGED <<r_soup, r_item, r_end, r_content>>
    /\ UNCHANGED <<fvars, dvars, pvars, tvars, cvars, wvars, svars, mvars, gvars, avars>>

\* the TOC item that follows r_item: its anchor is the empty <a name="zz">
NextItem == TableOfContentsItem(Heading1B, Some(Hash(ZZ)))

\* _extract_sections on the entry of r_item: the next item is resolved, and
\* _extract_content_between(start_node, end_node) is called with its start
\* node, or with None when it has none
CallExtractContentBetween ==
    /\ r_pc = "resolved"
    /\ r_start # NoPath
    /\ r_pc' = "extracted"
    /\ r_end' = FindSectionStartElement(r_soup, NextItem)
    /\ r_content' = ExtractContentBetween(r_soup, r_start,
                         IF r_end' = NoPath THEN None ELSE Some(NodeAt(r_soup, r_end')))
    /\ UNCHANGED <<r_soup, r_item, r_start>>
    /\ UNCHANGED <<fvars, dvars, pvars, tvars, cvars, wvars, svars, mvars, gvars, avars>>

RNext ==
    \/ CallFindSectionStartElement
    \/ CallExtractContentBetween

ResolveSpec == RInit /\ [][RNext]_vars

\* the element the anchor of r_item points to
AnchorTarget == FindTarget(r_soup, TFrom(r_item.anchor_text.val, 1))

\* the positions, among the siblings of the node at p, of the elements
\* that follow it
LaterElements(soup, p) ==
    {j \in (p[Len(p)] + 1)..Len(SiblingsOf(soup, p)) : IsTag(SiblingsOf(soup, p)[j])}

\* C13: when the anchor of a TOC entry points to an <a> without visible
\* text, the start node is the first following sibling element that is not
\* such an <a>, every sibling element passed over being one; the <a> itself
\* is the start node only when no following sibling element qualifies
Thm_C13_EmptyAnchorsSkipped ==
    (r_pc = "resolved" /\ IsEmptyAnchor(NodeAt(r_soup, AnchorTarget))) =>
        Let2(SiblingsOf(r_soup, AnchorTarget), LaterElements(r_soup, AnchorTarget),
             LAMBDA sibs, later :
            IF \A j \in later : IsEmptyAnchor(sibs[j])
            THEN r_start = AnchorTarget
            ELSE \E j \in later :
                    /\ r_start = SiblingPath(AnchorTarget, j)
                    /\ ~IsEmptyAnchor(sibs[j])
                    /\ \A i \in later : i < j => IsEmptyAnchor(sibs[i]))

\* C13 witness: the anchor is followed by three more <a> elements without
\* visible text and then a paragraph, and the paragraph is the start node
Wit_C13_ThreeEmptyAnchorsThenParagraph ==
    /\ r_pc = "resolved"
    /\ Len(r_start) = 1
    /\ r_start[1] = AnchorTarget[1] + 4
    /\ NodeAt(r_soup, r_start).name = "p"
    /\ \A j \in (AnchorTarget[1] + 1)..(r_start[1] - 1) : IsEmptyAnchor(r_soup[j])

----------------------------------------------------------------------------
(* Properties of process_document and of the batch loop *)

\* _extract_sections has just returned
SectionsExtracted == d_pc = "chunk" /\ d_sidx = 1

\* the call has returned what the chunk loop built
ReturnedNormally == d_pc = "returned" /\ d_fault = "" /\ d_file.status = "ok"

\* C1: process_document never hands an exception to its caller: a file that
\* is missing or cannot be read or parsed, and an exception raised at any
\* later point, each end the call with the empty list, whatever chunks had
\* been built by then.
Thm_C1_FaultsReturnEmpty ==
    /\ d_fault # "" => d_pc = "returned" /\ d_result = << >>
    /\ d_pc = "returned" /\ d_file.status # "ok" => d_result = << >>
    /\ d_pc \in {"idle", "start", "load", "toc", "sections", "chunk", "returned"}

\* an exception while a later section is chunked, chunks of earlier
\* sections already built
Wit_C1_FaultWithChunksBuilt ==
    /\ d_fault = "chunk"
    /\ d_chunks # << >>
    /\ 2 <= d_sidx /\ d_sidx <= Len(d_sections)
    /\ d_result = << >>

\* len(text) <= 1.3 * chunk_size at the default chunk_size
WithinCeiling(text) == 10 * TLen(text) <= 13 * DefaultChunkSize

\* C2 as stated: every returned chunk is within 1.3 * chunk_size, for both
\* settings of chunk_long_items.
Orig_C2_AllChunksWithinCeiling ==
    d_pc = "returned" => \A i \in 1..Len(d_result) : WithinCeiling(d_result[i].text)

\* C2: with chunk_long_items set every returned chunk is within
\* 1.3 * chunk_size; with it unset every section comes back whole as one
\* chunk with chunk_id 0, however long it is.
Thm_C2_CeilingWhenChunking ==
    ReturnedNormally =>
        /\ d_cli => \A i \in 1..Len(d_result) : WithinCeiling(d_result[i].text)
        /\ ~d_cli =>
              /\ Len(d_result) = Len(d_sections)
              /\ \A i \in 1..Len(d_result) :
                    /\ d_result[i].text = d_sections[i].content
                    /\ d_result[i].metadata.chunk_id = 0

\* chunk_long_items is set and a section over the ceiling has been chunked
Wit_C2_LongSectionSplit ==
    /\ ReturnedNormally
    /\ d_cli
    /\ \E i \in 1..Len(d_sections) : ~WithinCeiling(d_sections[i].content)
    /\ d_result # << >>

\* C4: in the chunks built for a document, chunk_id is 0 where a section
\* starts and one more than its predecessor elsewhere, and the chunks of a
\* section are next to each other.
Thm_C4_ChunkIdsSequential ==
    d_pc \in {"chunk", "returned"} =>
        LET item(i) == d_chunks[i].metadata.item
            id(i) == d_chunks[i].metadata.chunk_id
        IN  /\ \A i \in 1..Len(d_chunks) :
                  id(i) = IF i = 1 \/ item(i) # item(i - 1) THEN 0 ELSE id(i - 1) + 1
            /\ \A i, j \in 1..Len(d_chunks) :
                  i < j /\ item(i) = item(j) => \A k \in i..j : item(k) = item(i)
            /\ ReturnedNormally => d_result = d_chunks

\* two sections, each split into two chunks or more
Wit_C4_TwoSplitSections ==
    /\ ReturnedNormally
    /\ \E i, j \in 1..Len(d_result) :
          /\ d_result[i].metadata.item # d_result[j].metadata.item
          /\ d_result[i].metadata.chunk_id >= 1
          /\ d_result[j].metadata.chunk_id >= 1

\* the headings the extractor tests in the strategy that yields the TOC,
\* in scan order: the matching links of the first container that has one,
\* or else the matching text nodes with a short item token
ScannedHeadings(soup) ==
    LET parents == FindAll(soup, {"table", "ul", "ol", "div"})
        matching(p) == SelectSeq(LinksUnder(soup, p),
                          LAMBDA q : ItemPatternMatch(GetText(NodeAt(soup, q))).ok)
        withItem == {i \in 1..Len(parents) : matching(parents[i]) # << >>}
        links == matching(parents[Least(withItem)])
        texts == SelectSeq(FindAll(soup, {"#text"}), LAMBDA q :
                    /\ ParentName(soup, q) \notin {"script", "style"}
                    /\ ItemPatternMatch(TStrip(NodeAt(soup, q).text)).ok
                    /\ TLen(ItemNumberOf(TStrip(NodeAt(soup, q).text))) < 20)
    IN  IF withItem # {}
        THEN [k \in 1..Len(links) |->
                [item_number |-> ItemNumberOf(GetText(NodeAt(soup, links[k]))),
                 anchor_text |-> Some(NodeAt(soup, links[k]).href)]]
        ELSE [k \in 1..Len(texts) |->
                [item_number |-> ItemNumberOf(TStrip(NodeAt(soup, texts[k]).text)),
                 anchor_text |-> ParentAnchor(soup, texts[k])]]

SameItem(a, b) == TLower(a) = TLower(b)

\* C6: no two TOC entries have the same item number ignoring case; the TOC
\* is the scanned headings in scan order without those whose item number
\* an earlier heading has, each with its own anchor; and no two Sections
\* have the same item number ignoring case.
Thm_C6_TocUniqueFirstKept ==
    /\ d_pc = "sections" =>
          Let(ScannedHeadings(d_soup), LAMBDA hs :
          Let(SortedSeq({k \in 1..Len(hs) :
                           \A m \in 1..(k - 1) :
                              ~SameItem(hs[m].item_number, hs[k].item_number)}),
              LAMBDA order :
                  /\ \A i, j \in 1..Len(d_toc) :
                        i # j => ~SameItem(d_toc[i].item_number, d_toc[j].item_number)
                  /\ Len(d_toc) = Len(order)
                  /\ \A i \in 1..Len(d_toc) :
                        /\ d_toc[i].item_number = hs[order[i]].item_number
                        /\ d_toc[i].anchor_text = hs[order[i]].anchor_text))
    /\ SectionsExtracted =>
          \A i, j \in 1..Len(d_sections) :
             i # j => ~SameItem(d_sections[i].item_number, d_sections[j].item_number)

\* two headings spell one item number differently and a Section came out
Wit_C6_TwoSpellings ==
    /\ SectionsExtracted
    /\ d_sections # << >>
    /\ \E a, b \in 1..Len(ScannedHeadings(d_soup)) :
          LET hs == ScannedHeadings(d_soup)
          IN  /\ a < b
              /\ hs[a].item_number # hs[b].item_number
              /\ SameItem(hs[a].item_number, hs[b].item_number)

\* the TOC positions whose start node resolves
Resolved(soup, toc) ==
    {i \in 1..Len(toc) : FindSectionStartElement(soup, toc[i]) # NoPath}

\* the start node each TOC item resolves to, NoPath for one that does not
StartsOf(soup, toc) == [i \in 1..Len(toc) |-> FindSectionStartElement(soup, toc[i])]

\* the cleaned content from start node i of starts to the next start node
\* that is one, nothing when start node i is none
ContentToNextStart(soup, starts, i) ==
    IF starts[i] = NoPath THEN << >>
    ELSE Let({j \in (i + 1)..Len(starts) : starts[j] # NoPath}, LAMBDA later :
         Let(IF later = {} THEN None ELSE Some(NodeAt(soup, starts[Least(later)])),
             LAMBDA end_node :
                 CleanSectionContent(ExtractContentBetween(soup, starts[i], end_node))))

\* the cleaned content of TOC item i when its end boundary is the start
\* node of the next item that resolves
ContentToNextResolved(soup, toc, i) ==
    ContentToNextStart(soup, StartsOf(soup, toc), i)

SectionsFor(item_number) ==
    {k \in 1..Len(d_sections) : d_sections[k].item_number = item_number}

\* C7: start_nodes_info holds exactly the TOC items that resolve, in TOC
\* order; an item that does not resolve has no Section; an item that does
\* has the Section whose content ends at the start node of the next item
\* that resolves (at the end of the siblings when there is none), unless
\* nothing is left of that content after cleaning.
Thm_C7_UnresolvedItemSkipped ==
    SectionsExtracted =>
        Let(StartsOf(d_soup, d_toc), LAMBDA starts :
        Let(SortedSeq({i \in 1..Len(d_toc) : starts[i] # NoPath}), LAMBDA order :
            /\ Len(d_infos) = Len(order)
            /\ \A k \in 1..Len(d_infos) :
                  /\ d_infos[k].item = d_toc[order[k]]
                  /\ d_infos[k].start = starts[order[k]]
            /\ \A i \in 1..Len(d_toc) :
                  Let2(SectionsFor(d_toc[i].item_number),
                       ContentToNextStart(d_soup, starts, i),
                       LAMBDA mine, content :
                           IF content # << >>
                           THEN \E k \in mine :
                                   /\ d_sections[k].content = content
                                   /\ d_sections[k].title = d_toc[i].title
                           ELSE mine = {})))

\* an item that does not resolve stands between two that do, and the
\* Section before it ends where the one after it starts
Wit_C7_UnresolvedBetweenResolved ==
    /\ SectionsExtracted
    /\ \E i, j, k \in 1..Len(d_toc) :
          /\ i < j /\ j < k
          /\ {i, k} \subseteq Resolved(d_soup, d_toc)
          /\ j \notin Resolved(d_soup, d_toc)
          /\ SectionsFor(d_toc[i].item_number) # {}
          /\ SectionsFor(d_toc[k].item_number) # {}
          /\ ContentToNextResolved(d_soup, d_toc, i) #
                CleanSectionContent(ExtractContentBetween(
                    d_soup, FindSectionStartElement(d_soup, d_toc[i]), None))

\* neither strategy finds a TOC item
NoTocFound(soup) == TocFromLinks(soup) = << >> /\ TocFromText(soup) = << >>

\* a call on a readable document without TOC items has returned to the loop
NoTocReturned ==
    /\ p_pc = "call"
    /\ ReturnedNormally
    /\ NoTocFound(d_soup)

\* C8: a readable document in which neither strategy finds a TOC item makes
\* process_document return the empty list, and the step the batch loop
\* takes next puts it back at its head, one report further, all_chunks as
\* it was.
Thm_C8_NoTocLoopContinues ==
    /\ [](ReturnedNormally /\ NoTocFound(d_soup) => d_result = << >>)
    /\ [][NoTocReturned =>
            p_pc' = "loop" /\ p_idx' = p_idx + 1 /\ p_all_chunks' = p_all_chunks]_vars

\* the loop is back at its head after a document without TOC items, with
\* a report still to come
Wit_C8_LoopResumedAfterNoToc ==
    /\ p_pc = "loop"
    /\ 1 <= p_idx /\ p_idx < MaxReports
    /\ d_pc = "idle"
    /\ d_fault = "" /\ d_file.status = "ok"
    /\ NoTocFound(d_soup)
    /\ p_ingest

\* C10 as stated: metadata.source is the source argument character for
\* character, directory part included; company and year are copied.
Orig_C10_SourceVerbatim ==
    d_pc = "returned" =>
        \A i \in 1..Len(d_result) :
            /\ d_result[i].metadata.source = d_filepath
            /\ d_result[i].metadata.company = d_company
            /\ d_result[i].metadata.year = d_year

\* C10: metadata.source of every returned chunk is what follows the last
\* "/" of the source argument: it has no "/", the argument ends with it,
\* and it is the whole argument or follows a "/"; company and year are
\* copied unchanged.
Thm_C10_SourceIsBaseName ==
    d_pc = "returned" =>
        \A i \in 1..Len(d_result) :
            LET src == d_result[i].metadata.source
                cut == TLen(d_filepath) - TLen(src)
            IN  /\ \A k \in 1..Len(src) : src[k].c # "/"
                /\ cut >= 0
                /\ TFrom(d_filepath, cut) = src
                /\ cut = 0 \/ CharAt(d_filepath, cut - 1) = "/"
                /\ d_result[i].metadata.company = d_company
                /\ d_result[i].metadata.year = d_year

\* chunks came back for a source argument with a directory part
Wit_C10_PathWithDirectory ==
    /\ ReturnedNormally
    /\ d_result # << >>
    /\ \E k \in 1..Len(d_filepath) : d_filepath[k].c = "/"

\* the fragment links below the element at p whose text matches the item
\* pattern
MatchingLinks(soup, p) ==
    SelectSeq(LinksUnder(soup, p),
              LAMBDA q : ItemPatternMatch(GetText(NodeAt(soup, q))).ok)

\* the candidate containers that hold such a link, in document order
ContainersWithItems(soup) ==
    SelectSeq(FindAll(soup, {"table", "ul", "ol", "div"}),
              LAMBDA p : MatchingLinks(soup, p) # << >>)

\* the strings the text search reads an item from
ItemTexts(soup) ==
    SelectSeq(FindAll(soup, {"#text"}), LAMBDA q :
        /\ ParentName(soup, q) \notin {"script", "style"}
        /\ ItemPatternMatch(TStrip(NodeAt(soup, q).text)).ok)

\* C14: the TOC has one source.  When some candidate container holds a
\* fragment link whose text matches the item pattern, every TOC entry is
\* read off such a link of the first of these containers and every such
\* link of that container has its item in the TOC; no later container and
\* no bare string contributes.  Otherwise every entry is read off a string
\* that matches the pattern, and its item number is shorter than 20
\* characters.
Thm_C14_SingleTocSource ==
    d_pc = "sections" =>
        Let(ContainersWithItems(d_soup), LAMBDA cs :
            IF cs # << >>
            THEN Let(Let(MatchingLinks(d_soup, cs[1]), LAMBDA links :
                         [k \in 1..Len(links) |->
                             [item_number |->
                                  ItemNumberOf(GetText(NodeAt(d_soup, links[k]))),
                              anchor_text |-> Some(NodeAt(d_soup, links[k]).href)]]),
                     LAMBDA read :
                     /\ \A i \in 1..Len(d_toc) :
                           \E k \in 1..Len(read) :
                              /\ d_toc[i].item_number = read[k].item_number
                              /\ d_toc[i].anchor_text = read[k].anchor_text
                     /\ \A k \in 1..Len(read) :
                           \E i \in 1..Len(d_toc) :
                              SameItem(d_toc[i].item_number, read[k].item_number))
            ELSE Let(Let(ItemTexts(d_soup), LAMBDA ts :
                         [k \in 1..Len(ts) |->
                             [item_number |->
                                  ItemNumberOf(TStrip(NodeAt(d_soup, ts[k]).text)),
                              anchor_text |-> ParentAnchor(d_soup, ts[k])]]),
                     LAMBDA read :
                     \A i \in 1..Len(d_toc) :
                        /\ TLen(d_toc[i].item_number) < MaxItemNumberLen
                        /\ \E k \in 1..Len(read) :
                              /\ d_toc[i].item_number = read[k].item_number
                              /\ d_toc[i].anchor_text = read[k].anchor_text))

\* C14 witness: two containers hold item links, the second one an item the
\* first has not, and the TOC holds the items of the first container only
Wit_C14_SecondContainerIgnored ==
    /\ d_pc = "sections"
    /\ Len(ContainersWithItems(d_soup)) >= 2
    /\ Let(MatchingLinks(d_soup, ContainersWithItems(d_soup)[2]), LAMBDA links :
           \E k \in 1..Len(links) :
              \A i \in 1..Len(d_toc) :
                 ~SameItem(d_toc[i].item_number,
                           ItemNumberOf(GetText(NodeAt(d_soup, links[k])))))

\* C15: the Sections are, in TOC order, the TOC items whose start node
\* resolves and whose content is not empty after cleaning, one Section
\* each, with the item number and the title of the TOC entry and that
\* cleaned content; no other item has a Section
Thm_C15_OneSectionPerKeptItem ==
    SectionsExtracted =>
        Let(StartsOf(d_soup, d_toc), LAMBDA starts :
        Let([i \in 1..Len(d_toc) |-> ContentToNextStart(d_soup, starts, i)],
            LAMBDA content :
        Let(SortedSeq({i \in 1..Len(d_toc) : content[i] # << >>}), LAMBDA kept :
            /\ Len(d_sections) = Len(kept)
            /\ \A k \in 1..Len(kept) :
                  /\ d_sections[k].item_number = d_toc[kept[k]].item_number
                  /\ d_sections[k].title = d_toc[kept[k]].title
                  /\ d_sections[k].content = content[kept[k]])))

\* C15 witness: of two items that resolve, the first cleans to nothing and
\* the second has the only Section
Wit_C15_EmptySectionDropped ==
    /\ SectionsExtracted
    /\ Len(d_toc) = 2
    /\ Resolved(d_soup, d_toc) = {1, 2}
    /\ Len(d_sections) = 1
    /\ d_sections[1].item_number = d_toc[2].item_number

\* the sibling at which the walk from the node at start breaks because the
\* end node lies below it: its position among the siblings, 0 when the
\* walk ends at the end node itself or runs to the last sibling
NestingAt(soup, start, end_node) ==
    Let(SiblingsOf(soup, start), LAMBDA sibs :
    Let({j \in (start[Len(start)] + 1)..Len(sibs) :
            end_node.some /\ (sibs[j] = end_node.val
                              \/ (IsTag(sibs[j]) /\ end_node.val \in Descendants(sibs[j])))},
        LAMBDA stops :
            IF stops = {} THEN 0
            ELSE IF sibs[Least(stops)] = end_node.val THEN 0
            ELSE Least(stops)))

\* entry k of start_nodes_info is one whose extraction meets the nesting
NestingDetected(k) ==
    NestingAt(d_soup, d_infos[k].start, EndNode(d_soup, d_infos, k)) # 0

\* the cleaned text of the start node and of the siblings that lie before
\* sibling number at
ContentBefore(soup, start, at) ==
    Let(SiblingsOf(soup, start), LAMBDA sibs :
    Let(StartNodeParts(NodeAt(soup, start))
            \o Concat([j \in 1..(at - 1 - start[Len(start)]) |->
                          NodeParts(sibs[start[Len(start)] + j])]),
        LAMBDA parts :
            CleanSectionContent(NormalizeWhitespace(TStrip(TJoin(Rep("\n", 1), parts))))))

\* C16 as stated: a TOC item whose extraction detects that the end node is
\* nested below a node of the traversal has no Section
Orig_C16_NestedSectionOmitted ==
    SectionsExtracted =>
        \A k \in 1..Len(d_infos) :
            NestingDetected(k) => SectionsFor(d_infos[k].item.item_number) = {}

\* C16, amended: when the extraction of an item finds the end node below a
\* sibling it walks over, it stops before that sibling, and the item has a
\* Section with what was collected up to there unless that cleans to
\* nothing; every other item has the Section of the content between its
\* own start node and its own end node
Thm_C16_NestedSectionCutShort ==
    SectionsExtracted =>
        \A k \in 1..Len(d_infos) :
            Let2(NestingAt(d_soup, d_infos[k].start, EndNode(d_soup, d_infos, k)),
                 SectionsFor(d_infos[k].item.item_number), LAMBDA at, mine :
            Let(IF at # 0 THEN ContentBefore(d_soup, d_infos[k].start, at)
                ELSE CleanedContent(d_soup, d_infos, k), LAMBDA content :
                IF content = << >> THEN mine = {}
                ELSE \E m \in mine : d_sections[m].content = content))

\* C16 witness: the end node of an item lies below a sibling of its start
\* node, the item has a Section all the same, and so has the next item
Wit_C16_NestedEndSectionKept ==
    /\ SectionsExtracted
    /\ \E k \in 1..(Len(d_infos) - 1) :
          /\ NestingDetected(k)
          /\ SectionsFor(d_infos[k].item.item_number) # {}
          /\ SectionsFor(d_infos[k + 1].item.item_number) # {}

----------------------------------------------------------------------------
(* The downloader: download_filing under the retry decorator, and
   fetch_sec_filings (ingestion/download_sp500_reports.py) *)

\* stop_after_attempt(5)
StopAfterAttempt == 5

\* stop_after_attempt, stopping one attempt late
ShouldStop_OneMore(attempt_number) == attempt_number > StopAfterAttempt

\* stop_after_attempt(5): no attempt follows the attempt of this number
ShouldStop(attempt_number) == attempt_number >= StopAfterAttempt

\* retry_if_exception_type(httpx.RequestError)
ShouldRetry(error) == error = "RequestError"

\* Response.is_success, which raise_for_status tests
IsSuccess(status_code) == 200 <= status_code /\ status_code < 300

\* filing_url.split('/')[-1]
LastSplit(url) == TFrom(url, AfterLastSlash(url))

\* os.path.join(a, b)
PathJoin(a, b) ==
    IF At(b, 0) = "/" THEN b
    ELSE IF a = << >> \/ At(a, TLen(a) - 1) = "/" THEN TCat(a, b)
    ELSE TCat(a, TCat(Rep("/", 1), b))

\* save_path of download_filing
SavePath(filing_url, company, output_dir) ==
    PathJoin(output_dir, TCat(company, TCat(Rep("_", 1), LastSplit(filing_url))))

\* the directory a file of this path is created in
Dirname(path) ==
    IF AfterLastSlash(path) = 0 THEN << >>
    ELSE TSlice(path, 0, AfterLastSlash(path) - 1)

\* the files after open(path, "wb") and write(content)
Written(files, path, content) ==
    {f \in files : f.path # path} \cup {[path |-> path, content |-> content]}

\* what httpx.get can do: raise an httpx.RequestError, or return a response
FilingReplies ==
    {[error |-> "RequestError", status_code |-> 0, content |-> << >>]}
        \cup {[error |-> "", status_code |-> 200, content |-> Rep("b", n)] : n \in {0, 3}}
        \cup {[error |-> "", status_code |-> sc, content |-> Rep("e", 1)] : sc \in {301, 404}}

\* nothing returned, nothing raised yet
NoOutcome == [kind |-> "none", value |-> None, error |-> ""]

\* download_filing returns value
WReturn(value) ==
    /\ w_pc' = "returned"
    /\ w_outcome' = [kind |-> "returned", value |-> value, error |-> ""]

\* an exception leaves the decorated download_filing
WRaise(error) ==
    /\ w_pc' = "raised"
    /\ w_outcome' = [kind |-> "raised", value |-> None, error |-> error]

\* a call of download_filing(cik, filing_url, company, output_dir): the
\* first attempt is about to run
WCalled(cik, filing_url, company, output_dir) ==
    /\ w_pc' = "attempting"
    /\ w_args' = [cik |-> cik, filing_url |-> filing_url, company |-> company,
                  output_dir |-> output_dir]
    /\ w_attempt' = 1
    /\ w_requests' = << >>
    /\ w_response' = << >>
    /\ w_outcome' = NoOutcome

\* one attempt: the body of download_filing runs, and the decorator returns
\* its value, lets its exception out, or goes to sleep before another attempt
DownloadAttempt ==
    /\ w_pc = "attempting"
    /\ IF w_args.filing_url = << >>
       THEN /\ WReturn(None)
            /\ UNCHANGED <<w_requests, w_response, w_files>>
       ELSE \E reply \in FilingReplies :
            LET save_path ==
                    SavePath(w_args.filing_url, w_args.company, w_args.output_dir)
            IN  /\ w_requests' = Append(w_requests, w_args.filing_url)
                /\ IF reply.error # ""
                   THEN /\ UNCHANGED <<w_response, w_files>>
                        /\ IF ShouldRetry(reply.error) /\ ~ShouldStop(w_attempt)
                           THEN w_pc' = "sleeping" /\ UNCHANGED w_outcome
                           ELSE WRaise(reply.error)
                   ELSE /\ w_response' = reply
                        /\ IF ~IsSuccess(reply.status_code)
                           THEN WRaise("HTTPStatusError") /\ UNCHANGED w_files
                           ELSE IF Dirname(save_path) \notin w_dirs
                           THEN WRaise("FileNotFoundError") /\ UNCHANGED w_files
                           ELSE /\ w_files' = Written(w_files, save_path, reply.content)
                                /\ WReturn(Some(save_path))
    /\ UNCHANGED <<w_args, w_attempt, w_dirs, w_fetch>>
    /\ UNCHANGED <<fvars, dvars, pvars, tvars, cvars, rvars, svars, mvars, gvars, avars>>

\* wait_exponential has slept: the next attempt
WaitAndRetry ==
    /\ w_pc = "sleeping"
    /\ w_pc' = "attempting"
    /\ w_attempt' = w_attempt + 1
    /\ UNCHANGED <<w_args, w_requests, w_response, w_outcome, w_dirs, w_files, w_fetch>>
    /\ UNCHANGED <<fvars, dvars, pvars, tvars, cvars, rvars, svars, mvars, gvars, avars>>

\* form types, as the SEC writes them
F10K == Str(<<"1", "0", "-", "K">>)

F10Q == Str(<<"1", "0", "-", "Q">>)

\* form_types given as a list
FormList(items) == [literal |-> FALSE, items |-> items]

\* the default of form_types: the typing form Literal["10-K", "10-Q"]
DefaultFormTypes == [literal |-> TRUE, items |-> <<F10K, F10Q>>]

\* what iterating a typing form yields where that is possible: the form
\* itself, unpacked, which is equal to no string
UnpackedLiteral == Str(<<"*", "L">>)

\* the values `for form_type in form_types` binds, when the loop can run
Iterated(form_types) ==
    IF form_types.literal THEN <<UnpackedLiteral>> ELSE form_types.items

\* models.SP500Company(ticker, cik)
SP500Company(ticker, cik) == [ticker |-> ticker, cik |-> cik]

\* the companies get_sp500_companies can return, in the order of the table
CompanyPool ==
    <<SP500Company(Str(<<"A">>), Str(<<"0", "0", "3">>)),
      SP500Company(Str(<<"M">>), Str(<<"0", "7">>)),
      SP500Company(Str(<<"G">>), Str(<<"0", "9", "0">>))>>

MaxCompanies == 2

\* the lists get_sp500_companies can return: rows of the table in its order,
\* none when the table could not be read
CompanyLists ==
    {[k \in 1..Cardinality(S) |-> CompanyPool[SortedSeq(S)[k]]] :
        S \in {T \in SUBSET (1..Len(CompanyPool)) : Cardinality(T) <= MaxCompanies}}

\* filings.recent of the submissions document of a company: parallel lists,
\* latest filing first
Recent(cik) ==
    IF cik = CompanyPool[1].cik
    THEN [form |-> <<F10K, F10K>>,
          accessionNumber |-> <<Str(<<"0", "-", "2">>), Str(<<"0", "-", "1">>)>>,
          primaryDocument |-> <<Str(<<"k", ".", "h">>), Str(<<"j", ".", "h">>)>>]
    ELSE IF cik = CompanyPool[3].cik
    THEN [form |-> <<F10Q, F10K>>,
          accessionNumber |-> <<Str(<<"0", "-", "5">>), Str(<<"0", "-", "4">>)>>,
          primaryDocument |-> <<Str(<<"q", ".", "h">>), Str(<<"k", ".", "h">>)>>]
    ELSE [form |-> << >>, accessionNumber |-> << >>, primaryDocument |-> << >>]

\* str.replace("-", "")
RemoveDashes(t) == Norm(SelectSeq(t, LAMBDA r : r.c # "-"))

\* str(int(cik)) of a string of digits
CikClean(cik) ==
    IF Len(cik) = 0 \/ cik[1].c # "0" THEN cik
    ELSE IF Len(cik) = 1 THEN Rep("0", 1)
    ELSE Tail(cik)

\* https://www.sec.gov/Archives/edgar/data/, shortened
ArchivesUrl == Str(<<"s", ":", "/", "/", "e", "/">>)

\* get_latest_filings after a successful response: the URL of the first
\* filing of the form type, None when recent_filings.form.index raises
LatestFilingUrl(cik, form_type) ==
    LET recent == Recent(cik)
        hits == {i \in 1..Len(recent.form) : recent.form[i] = form_type}
    IN  IF hits = {} THEN None
        ELSE LET idx == Least(hits)
             IN  Some(Norm(Concat(<<ArchivesUrl, CikClean(cik), Rep("/", 1),
                                    RemoveDashes(recent.accessionNumber[idx]),
                                    Rep("/", 1), recent.primaryDocument[idx]>>)))

\* what the request of get_latest_filings can do: raise an
\* httpx.RequestError, or return a response with this status
SubmissionReplies ==
    {[error |-> "RequestError", status_code |-> 0],
     [error |-> "", status_code |-> 200],
     [error |-> "", status_code |-> 404]}

\* get_latest_filings(cik, form_type) under a reply: the URL or None it
\* returns, or the exception that leaves it
GetLatestFilings(cik, form_type, reply) ==
    IF reply.error = "RequestError" THEN [error |-> "", url |-> None]
    ELSE IF ~IsSuccess(reply.status_code) THEN [error |-> "HTTPStatusError", url |-> None]
    ELSE [error |-> "", url |-> LatestFilingUrl(cik, form_type)]

\* d[k] = v
DictPut(d, k, v) == {e \in d : e.k # k} \cup {[k |-> k, v |-> v]}

\* the keys of a dict
DictKeys(d) == {e.k : e \in d}

\* d[k], for a key of d
DictGet(d, k) == (CHOOSE e \in d : e.k = k).v

\* the arguments and locals of fetch_sec_filings when no call is under way
NoFetch ==
    [pc |-> "none", root_dir |-> << >>, form_types |-> FormList(<< >>),
     iterable |-> TRUE, sp500_companies |-> << >>, ci |-> 0, fi |-> 0,
     downloaded |-> {}, results |-> {}, outcome |-> NoOutcome]

\* download_filing called on its own
DownloadCalls ==
    {[cik |-> CompanyPool[1].cik, filing_url |-> url, company |-> CompanyPool[1].ticker,
      output_dir |-> Str(<<"d", "/", "K">>)] :
        url \in {<< >>, LatestFilingUrl(CompanyPool[1].cik, F10K).val,
                 Str(<<"k", ".", "h">>), ArchivesUrl}}

\* the directories os.makedirs(path, exist_ok=True) leaves
MakeDirs(dirs, path) ==
    dirs \cup {TSlice(path, 0, e) : e \in {TLen(path)} \cup
                  {SumN(path, k) - 1 : k \in {j \in 1..Len(path) : path[j].c = "/"}}}

\* either download_filing is called, in a file system with or without its
\* output directory, or fetch_sec_filings is, in an empty file system
WInit ==
    /\ \/ /\ \E call \in DownloadCalls :
                /\ w_args = call
                /\ w_dirs \in {{}, MakeDirs({}, call.output_dir)}
          /\ w_pc = "attempting"
          /\ w_attempt = 1
          /\ w_fetch = NoFetch
       \/ /\ w_pc = "idle"
          /\ w_args = << >>
          /\ w_attempt = 0
          /\ w_dirs = {}
          /\ \E form_types \in {FormList(<<F10K>>), FormList(<<F10K, F10Q>>),
                                FormList(<< >>), DefaultFormTypes},
                companies \in CompanyLists, iterable \in BOOLEAN :
                w_fetch = [NoFetch EXCEPT !.pc = "entered",
                                          !.root_dir = Str(<<"d">>),
                                          !.form_types = form_types,
                                          !.iterable = iterable,
                                          !.sp500_companies = companies]
    /\ w_requests = << >>
    /\ w_response = << >>
    /\ w_outcome = NoOutcome
    /\ w_files = {}
    /\ FIdle
    /\ DIdle
    /\ PIdle
    /\ TIdle
    /\ CIdle
    /\ RIdle
    /\ SIdle
    /\ MIdle
    /\ GIdle
    /\ AIdle

\* an exception leaves fetch_sec_filings
FetchRaise(error) ==
    w_fetch' = [w_fetch EXCEPT !.pc = "raised",
                               !.outcome = [kind |-> "raised", value |-> None,
                                            error |-> error]]

\* downloaded[form_type] = value, and the inner loop moves on
Downloaded(form_type, value) ==
    w_fetch' = [w_fetch EXCEPT !.pc = "loop",
                               !.downloaded = DictPut(@, form_type, value),
                               !.fi = @ + 1]

\* fetch_sec_filings up to its outer loop
FetchEnter ==
    /\ w_fetch.pc = "entered"
    /\ w_dirs' = MakeDirs(w_dirs, w_fetch.root_dir)
    /\ w_fetch' = [w_fetch EXCEPT !.pc = "loop", !.ci = 1, !.fi = 1]
    /\ UNCHANGED <<w_pc, w_args, w_attempt, w_requests, w_response, w_outcome, w_files>>
    /\ UNCHANGED <<fvars, dvars, pvars, tvars, cvars, rvars, svars, mvars, gvars, avars>>

\* the inner loop cannot start: form_types is a typing form and the
\* interpreter does not iterate those
FetchNotIterable ==
    /\ w_fetch.pc = "loop"
    /\ w_fetch.ci <= Len(w_fetch.sp500_companies)
    /\ w_fetch.form_types.literal /\ ~w_fetch.iterable
    /\ FetchRaise("TypeError")
    /\ UNCHANGED <<w_pc, w_args, w_attempt, w_requests, w_response, w_outcome, w_dirs,
                   w_files>>
    /\ UNCHANGED <<fvars, dvars, pvars, tvars, cvars, rvars, svars, mvars, gvars, avars>>

\* one pass of the inner loop, up to the return of get_latest_filings and,
\* with a URL, up to the call of download_filing
FetchForm ==
    /\ w_fetch.pc = "loop"
    /\ w_fetch.ci <= Len(w_fetch.sp500_companies)
    /\ w_fetch.form_types.literal => w_fetch.iterable
    /\ w_fetch.fi <= Len(Iterated(w_fetch.form_types))
    /\ \E reply \in SubmissionReplies :
        LET company == w_fetch.sp500_companies[w_fetch.ci]
            form_type == Iterated(w_fetch.form_types)[w_fetch.fi]
            got == GetLatestFilings(company.cik, form_type, reply)
            form_dir == PathJoin(w_fetch.root_dir, form_type)
        IN  IF got.error # ""
            THEN /\ FetchRaise(got.error)
                 /\ UNCHANGED <<w_pc, w_args, w_attempt, w_requests, w_response,
                                w_outcome, w_dirs>>
            ELSE IF got.url.some /\ got.url.val # << >>
            THEN /\ w_dirs' = MakeDirs(w_dirs, form_dir)
                 /\ WCalled(company.cik, got.url.val, company.ticker, form_dir)
                 /\ w_fetch' = [w_fetch EXCEPT !.pc = "downloading"]
            ELSE /\ Downloaded(form_type, None)
                 /\ UNCHANGED <<w_pc, w_args, w_attempt, w_requests, w_response,
                                w_outcome, w_dirs>>
    /\ UNCHANGED w_files
    /\ UNCHANGED <<fvars, dvars, pvars, tvars, cvars, rvars, svars, mvars, gvars, avars>>

\* download_filing is over: its value goes into downloaded, its exception
\* leaves fetch_sec_filings
FetchResume ==
    /\ w_fetch.pc = "downloading"
    /\ w_pc \in {"returned", "raised"}
    /\ IF w_pc = "raised"
       THEN FetchRaise(w_outcome.error)
       ELSE Downloaded(Iterated(w_fetch.form_types)[w_fetch.fi], w_outcome.value)
    /\ w_pc' = "idle"
    /\ UNCHANGED <<w_args, w_attempt, w_requests, w_response, w_outcome, w_dirs, w_files>>
    /\ UNCHANGED <<fvars, dvars, pvars, tvars, cvars, rvars, svars, mvars, gvars, avars>>

\* the inner loop is over: results[company.ticker] = downloaded, the pause,
\* and the next company
FetchCompanyDone ==
    /\ w_fetch.pc = "loop"
    /\ w_fetch.ci <= Len(w_fetch.sp500_companies)
    /\ w_fetch.form_types.literal => w_fetch.iterable
    /\ w_fetch.fi > Len(Iterated(w_fetch.form_types))
    /\ w_fetch' = [w_fetch EXCEPT
                      !.results = DictPut(@, w_fetch.sp500_companies[w_fetch.ci].ticker,
                                          w_fetch.downloaded),
                      !.downloaded = {},
                      !.ci = @ + 1,
                      !.fi = 1]
    /\ UNCHANGED <<w_pc, w_args, w_attempt, w_requests, w_response, w_outcome, w_dirs,
                   w_files>>
    /\ UNCHANGED <<fvars, dvars, pvars, tvars, cvars, rvars, svars, mvars, gvars, avars>>

\* the outer loop is over: return results
FetchReturn ==
    /\ w_fetch.pc = "loop"
    /\ w_fetch.ci > Len(w_fetch.sp500_companies)
    /\ w_fetch' = [w_fetch EXCEPT !.pc = "returned",
                                  !.outcome = [kind |-> "returned",
                                               value |-> Some(w_fetch.results),
                                               error |-> ""]]
    /\ UNCHANGED <<w_pc, w_args, w_attempt, w_requests, w_response, w_outcome, w_dirs,
                   w_files>>
    /\ UNCHANGED <<fvars, dvars, pvars, tvars, cvars, rvars, svars, mvars, gvars, avars>>

WNext ==
    \/ DownloadAttempt
    \/ WaitAndRetry
    \/ FetchEnter
    \/ FetchNotIterable
    \/ FetchForm
    \/ FetchResume
    \/ FetchCompanyDone
    \/ FetchReturn

FetchSpec == WInit /\ [][WNext]_vars

\* the text of url after its last "/", the whole of it when it has none
LastPathSegment(url) ==
    CHOOSE seg \in {TFrom(url, k) : k \in 0..TLen(url)} :
        /\ \A j \in 1..Len(seg) : seg[j].c # "/"
        /\ \/ TLen(seg) = TLen(url)
           \/ At(url, TLen(url) - TLen(seg) - 1) = "/"

\* output_dir/{company}_{last path segment of the URL}
PromisedPath(args) ==
    Norm(Concat(<<args.output_dir, Rep("/", 1), args.company, Rep("_", 1),
                  LastPathSegment(args.filing_url)>>))

\* C17: a call of download_filing with a non-empty URL returns only the path
\* output_dir/{company}_{last path segment}, and only when its last request
\* got a successful response whose body is the content of the file of that
\* path; it makes one request per attempt and never more than five; while
\* requests fail with RequestError it goes on to another attempt, and the
\* RequestError leaves it, with no path returned, only from the fifth
\* attempt; with an empty URL it makes no request and returns None
Thm_C17_DownloadContract ==
    w_pc \in {"attempting", "sleeping", "returned", "raised"} =>
        /\ w_attempt <= StopAfterAttempt
        /\ Len(w_requests) = IF w_pc = "attempting" THEN w_attempt - 1
                             ELSE IF w_args.filing_url = << >> THEN 0
                             ELSE w_attempt
        /\ \A k \in 1..Len(w_requests) : w_requests[k] = w_args.filing_url
        /\ w_pc = "sleeping" => w_attempt < StopAfterAttempt
        /\ w_pc = "returned" /\ w_args.filing_url # << >> =>
              /\ w_outcome.value = Some(PromisedPath(w_args))
              /\ w_response # << >>
              /\ IsSuccess(w_response.status_code)
              /\ \A f \in w_files :
                    f.path = PromisedPath(w_args) => f.content = w_response.content
              /\ \E f \in w_files : f.path = PromisedPath(w_args)
        /\ w_pc = "raised" =>
              /\ w_outcome.kind = "raised"
              /\ w_outcome.value = None
              /\ w_outcome.error = "RequestError" =>
                    w_attempt = StopAfterAttempt /\ Len(w_requests) = StopAfterAttempt
        /\ w_args.filing_url = << >> =>
              /\ w_requests = << >>
              /\ w_pc # "raised"
              /\ w_pc = "returned" => w_outcome.value = None

\* C17 witness: four attempts failed with RequestError, and the fifth has
\* written the body of its response and returned the path
Wit_C17_FifthAttemptSaved ==
    /\ w_pc = "returned"
    /\ w_outcome.value.some
    /\ w_attempt = StopAfterAttempt
    /\ Len(w_requests) = StopAfterAttempt

\* the form types a call of fetch_sec_filings asks for
RequestedFormTypes == {w_fetch.form_types.items[k] : k \in 1..Len(w_fetch.form_types.items)}

\* C18 as stated: the mapping fetch_sec_filings returns has an entry for
\* every company of the list and no other, every entry has the requested
\* form types as its keys, and the value of a form type is the path saved
\* for the latest filing URL of the company, or None where it has none
Orig_C18_EntryPerCompanyAndFormType ==
    w_fetch # << >> /\ w_fetch.pc = "returned" =>
        /\ DictKeys(w_fetch.results) =
              {w_fetch.sp500_companies[i].ticker : i \in 1..Len(w_fetch.sp500_companies)}
        /\ \A i \in 1..Len(w_fetch.sp500_companies) :
              LET company == w_fetch.sp500_companies[i]
                  entry == DictGet(w_fetch.results, company.ticker)
              IN  /\ DictKeys(entry) = RequestedFormTypes
                  /\ \A e \in entry :
                        LET url == LatestFilingUrl(company.cik, e.k)
                        IN  IF e.v.some
                            THEN /\ url.some
                                 /\ e.v.val = PromisedPath(
                                       [output_dir |-> PathJoin(w_fetch.root_dir, e.k),
                                        company |-> company.ticker,
                                        filing_url |-> url.val])
                                 /\ \E f \in w_files : f.path = e.v.val
                            ELSE e.v = None

\* the position, among the siblings of the start node, of the end node or
\* of the sibling that has the end node below it; 0 when the end node is
\* neither one of these siblings nor below one
BoundaryIndex ==
    IF /\ r_end # NoPath
       /\ Len(r_end) >= Len(r_start)
       /\ SubSeq(r_end, 1, Len(r_start) - 1) = SubSeq(r_start, 1, Len(r_start) - 1)
    THEN r_end[Len(r_start)]
    ELSE 0

\* the content made of what these nodes contribute: the start node when
\* with_start, and the siblings after it up to sibling number last
ContentOf(with_start, last) ==
    Let(SiblingsOf(r_soup, r_start), LAMBDA sibs :
    Let((IF with_start THEN StartNodeParts(NodeAt(r_soup, r_start)) ELSE << >>)
            \o Concat([j \in 1..(last - r_start[Len(r_start)]) |->
                          NodeParts(sibs[r_start[Len(r_start)] + j])]),
        LAMBDA parts : NormalizeWhitespace(TStrip(TJoin(Rep("\n", 1), parts)))))

\* C19 as stated: whenever the end node is one of the siblings of the start
\* node or lies below one, the content is made of nodes before that sibling
\* only: it has nothing of that sibling and nothing of a sibling after it
Orig_C19_NoTextAtOrPastBoundary ==
    r_pc = "extracted" /\ BoundaryIndex # 0 =>
        \E last \in r_start[Len(r_start)]..Max(r_start[Len(r_start)], BoundaryIndex - 1) :
            r_content = ContentOf(r_start[Len(r_start)] < BoundaryIndex, last)

\* C19, amended: when the end node, or a sibling that has the end node
\* among its descendants, is among the siblings that follow the start node,
\* the content is made of the start node and of siblings before that one
\* only: it has nothing of the end node, nothing of the sibling that holds
\* it and nothing of a sibling after either
Thm_C19_StopsBeforeBoundaryAhead ==
    r_pc = "extracted" /\ BoundaryIndex > r_start[Len(r_start)] =>
        \E last \in r_start[Len(r_start)]..(BoundaryIndex - 1) :
            r_content = ContentOf(TRUE, last)

\* C19 witness: the end node lies inside a <div> that follows the start
\* node, text was collected before the <div>, and a paragraph follows it
Wit_C19_StoppedAtHolderOfEndNode ==
    /\ r_pc = "extracted"
    /\ r_end # NoPath
    /\ Len(r_end) > Len(r_start)
    /\ BoundaryIndex > r_start[Len(r_start)]
    /\ BoundaryIndex < Len(SiblingsOf(r_soup, r_start))
    /\ r_content # << >>

\* the length of paragraphs joined by a separator of two characters
JoinedLen(paras) ==
    LET total[i \in 0..Len(paras)] == IF i = 0 THEN 0 ELSE total[i - 1] + TLen(paras[i])
    IN  total[Len(paras)] + 2 * Max(0, Len(paras) - 1)

\* how many paragraphs the longest suffix of paras has whose joined length
\* is at most ov
LongestSuffixWithin(paras, ov) ==
    LET fits == {m \in 0..Len(paras) :
                    JoinedLen(SubSeq(paras, Len(paras) - m + 1, Len(paras))) <= ov}
    IN  IF fits = {} THEN 0 ELSE CHOOSE m \in fits : \A n \in fits : n <= m

\* how many paragraphs packed chunk k starts with that come from the chunk
\* closed before it
CarriedOver(k) ==
    IF k = 1 THEN 0 ELSE LongestSuffixWithin(f_packed[k - 1].paras, f_overlap)

\* the position, among the paragraphs of the text, of the first paragraph
\* that packed chunk k adds
FirstAdded(k) ==
    LET before[i \in 0..(k - 1)] ==
            IF i = 0 THEN 0 ELSE before[i - 1] + Len(f_packed[i].paras) - CarriedOver(i)
    IN  before[k - 1] + 1

\* C20: the packed chunks are the greedy packing of the paragraphs of the
\* text: a chunk starts with the longest suffix of whole paragraphs of the
\* chunk closed before it whose joined length is at most overlap, then
\* takes the next paragraph of the text whatever its length, then every
\* further paragraph for which current length + paragraph length + 2 <=
\* chunk_size; it is closed by the first paragraph for which that sum is
\* larger; every paragraph of the text is added whole, once, in order
Thm_C20_GreedyPacking ==
    f_pc = "chunked" /\ f_text # << >> =>
        LET ps == Paragraphs(f_text)
            n == Len(f_packed)
        IN  /\ FirstAdded(n + 1) = Len(ps) + 1
            /\ \A k \in 1..n :
                  LET cur == f_packed[k].paras
                      m == CarriedOver(k)
                      first == FirstAdded(k)
                  IN  /\ Len(cur) >= m + 1
                      /\ k > 1 =>
                            LET prev == f_packed[k - 1].paras
                            IN  SubSeq(cur, 1, m)
                                    = SubSeq(prev, Len(prev) - m + 1, Len(prev))
                      /\ SubSeq(cur, m + 1, Len(cur))
                            = SubSeq(ps, first, first + Len(cur) - m - 1)
                      /\ \A j \in (m + 2)..Len(cur) :
                            JoinedLen(SubSeq(cur, 1, j - 1)) + TLen(cur[j]) + 2
                                <= f_chunk_size
                      /\ k < n =>
                            JoinedLen(cur) + TLen(ps[FirstAdded(k + 1)]) + 2
                                > f_chunk_size

\* C20 witness: a chunk took a second paragraph because it fitted, was
\* closed by a third, and the next chunk starts with the last paragraph of
\* the closed one, the last two being too long for the overlap
Wit_C20_FittedThenCarriedOver ==
    /\ f_pc = "chunked"
    /\ Len(f_packed) >= 2
    /\ Len(f_packed[1].paras) = 2
    /\ CarriedOver(2) = 1
    /\ Len(f_packed[2].paras) = 2

\* max(1, chunk_size - overlap)
WindowStep == IF f_chunk_size - f_overlap >= 1 THEN f_chunk_size - f_overlap ELSE 1

\* the offsets k * step below len, in order
WindowOffsets(len) ==
    SortedSeq({k * WindowStep : k \in {j \in 0..len : j * WindowStep < len}})

\* C21: a packed chunk of length L is force-split exactly when
\* L > 1.3 * chunk_size; it is then replaced by the windows
\* [k * step, min(k * step + chunk_size, L)) for every offset k * step < L
\* with step = max(1, chunk_size - overlap), and otherwise kept as it is.
\* So every returned string is at most 1.3 * chunk_size long, and every
\* window at most chunk_size.
Thm_C21_ForceSplitWindows ==
    f_pc = "chunked" =>
        /\ \A k \in 1..Len(f_packed) :
              Let(JoinParagraphs(f_packed[k].paras), LAMBDA chunk :
                  IF 10 * TLen(chunk) > 13 * f_chunk_size
                  THEN Let(WindowOffsets(TLen(chunk)), LAMBDA at :
                           /\ Len(f_final[k]) = Len(at)
                           /\ \A w \in 1..Len(at) :
                                 /\ f_final[k][w] =
                                       TSlice(chunk, at[w],
                                              Min(at[w] + f_chunk_size, TLen(chunk)))
                                 /\ TLen(f_final[k][w]) <= f_chunk_size)
                  ELSE f_final[k] = <<chunk>>)
        /\ f_chunks = Concat(f_final)
        /\ \A i \in 1..Len(f_chunks) : 10 * TLen(f_chunks[i]) <= 13 * f_chunk_size

\* C21 witness: a force-split chunk has a window that reaches the end of
\* the chunk and another window after it
Wit_C21_WindowAfterTheEnd ==
    /\ f_pc = "chunked"
    /\ \E k \in 1..Len(f_packed) :
          \E w \in 1..(Len(f_final[k]) - 1) :
             (w - 1) * WindowStep + TLen(f_final[k][w])
                 = TLen(JoinParagraphs(f_packed[k].paras))

----------------------------------------------------------------------------
(* _chunk_text step by step: the loop over chunks and the force-split loop *)

MaxSplitLen == 7
MaxSplitSize == 3

\* the texts and settings of a step-by-step call: the profiles' texts, and
\* single paragraphs under every small chunk_size >= 1 and overlap >= 0
SplitInputs ==
    {[text |-> MakeText(<< >>, NL2, ls), cs |-> p.cs, ov |-> p.ov] :
        p \in {q \in Profiles : q.cs < DefaultChunkSize}, ls \in LenSeqs({1, 3, 7})}
    \cup {[text |-> Rep("x", n), cs |-> cs, ov |-> ov] :
            n \in 0..MaxSplitLen, cs \in 1..MaxSplitSize, ov \in 0..(MaxSplitSize + 1)}

SInit ==
    /\ \E in \in SplitInputs :
          /\ s_text = in.text
          /\ s_chunk_size = in.cs
          /\ s_overlap = in.ov
    /\ s_pc = "input"
    /\ s_chunks = << >>
    /\ s_idx = 0
    /\ s_start = 0
    /\ s_iters = 0
    /\ s_final = << >>
    /\ FIdle
    /\ DIdle
    /\ PIdle
    /\ TIdle
    /\ CIdle
    /\ RIdle
    /\ WIdle
    /\ MIdle
    /\ GIdle
    /\ AIdle

\* mutant of LoopContinues: the loop also runs with start at the end
LoopContinues_AtEnd(start, len) == start <= len

\* the test of the force-split loop, and of its break negated
LoopContinues(start, len) == start < len

\* the part of _chunk_text before the loop over chunks (processor.py 339-381)
SplitPack ==
    /\ s_pc = "input"
    /\ IF s_text = << >>
       THEN s_pc' = "returned" /\ s_chunks' = << >>
       ELSE /\ s_pc' = "for"
            /\ s_chunks' = Let(PackedChunks(s_text, s_chunk_size, s_overlap), LAMBDA packed :
                               [k \in 1..Len(packed) |-> JoinParagraphs(packed[k].paras)])
    /\ UNCHANGED <<s_text, s_chunk_size, s_overlap, s_idx, s_start, s_iters, s_final>>
    /\ UNCHANGED <<fvars, dvars, pvars, tvars, cvars, rvars, wvars, mvars, gvars, avars>>

\* one turn of `for chunk in chunks` up to the while loop, or the return
SplitForChunk ==
    /\ s_pc = "for"
    /\ IF s_idx = Len(s_chunks)
       THEN /\ s_pc' = "returned"
            /\ UNCHANGED <<s_idx, s_start, s_iters, s_final>>
       ELSE LET chunk == s_chunks[s_idx + 1]
            IN  /\ s_idx' = s_idx + 1
                /\ IF Oversized(TLen(chunk), s_chunk_size)
                   THEN /\ s_pc' = "while"
                        /\ s_start' = 0
                        /\ UNCHANGED s_final
                   ELSE /\ s_pc' = "for"
                        /\ s_final' = IF chunk # << >> THEN Append(s_final, chunk)
                                      ELSE s_final
                        /\ UNCHANGED s_start
                /\ s_iters' = 0
    /\ UNCHANGED <<s_text, s_chunk_size, s_overlap, s_chunks>>
    /\ UNCHANGED <<fvars, dvars, pvars, tvars, cvars, rvars, wvars, mvars, gvars, avars>>

\* one iteration of `while start < len(chunk)` (processor.py 390-399)
SplitWhile ==
    /\ s_pc = "while"
    /\ LET chunk == s_chunks[s_idx]
       IN  IF LoopContinues(s_start, TLen(chunk))
           THEN /\ s_final' = Append(s_final,
                                     TSlice(chunk, s_start, s_start + s_chunk_size))
                /\ s_start' = NextStart(s_start, s_chunk_size, s_overlap)
                /\ s_iters' = s_iters + 1
                /\ s_pc' = IF LoopContinues(s_start', TLen(chunk)) THEN "while" ELSE "for"
           ELSE /\ s_pc' = "for"
                /\ UNCHANGED <<s_start, s_iters, s_final>>
    /\ UNCHANGED <<s_text, s_chunk_size, s_overlap, s_chunks, s_idx>>
    /\ UNCHANGED <<fvars, dvars, pvars, tvars, cvars, rvars, wvars, mvars, gvars, avars>>

SNext == SplitPack \/ SplitForChunk \/ SplitWhile

SplitSpec == SInit /\ [][SNext]_vars

\* the call is one thread of control: whenever a step of it can be taken, one
\* is taken
SplitLiveSpec == SplitSpec /\ WF_vars(SNext)

\* C22: every call of _chunk_text with chunk_size >= 1 and overlap >= 0
\* returns; each iteration of the force-split loop moves start forward by at
\* least 1, and the loop makes at most len(chunk) iterations on a chunk
Thm_C22_ChunkTextTerminates ==
    /\ <>(s_pc = "returned")
    /\ [][s_pc = "while" => s_start' >= s_start + 1]_svars
    /\ [](s_idx > 0 => s_iters <= TLen(s_chunks[s_idx]))
    /\ [](s_pc = "returned" => s_final = ChunkText(s_text, s_chunk_size, s_overlap))

\* the loop has run len(chunk) times on a chunk with overlap >= chunk_size
Wit_C22_OneStepPerCharacter ==
    /\ s_pc = "returned"
    /\ s_overlap >= s_chunk_size
    /\ s_idx > 0
    /\ s_iters > 1
    /\ s_iters = TLen(s_chunks[s_idx])

----------------------------------------------------------------------------
(* The line filter of the cleaner *)

\* the lines the filter reads, empty ones left out (processor.py 317-324)
FilterInput(text) == NonEmptyLines(RemoveSignatures(RemoveForwardLooking(text)))

\* the stripped lines of text that Drop does not drop, as they stand in the
\* cleaner's result
LinesLeft(text, Drop(_)) ==
    Let(FilterInput(text), LAMBDA lines :
    Let(SelectSeq([i \in 1..Len(lines) |-> TStrip(lines[i])], LAMBDA l : ~Drop(l)),
        LAMBDA left : [i \in 1..Len(left) |-> CollapseBlanks(left[i])]))

\* C23 as stated: a line is dropped exactly when it has fewer than 10
\* characters and does not match the heading pattern
Orig_C23_DropsUnderTen ==
    c_pc = "cleaned" =>
        NonEmptyLines(c_passes[1])
            = LinesLeft(c_text, LAMBDA l : TLen(l) < 10 /\ ~ItemPatternMatch(l).ok)

\* C23: a line is dropped exactly when, stripped of the whitespace around it,
\* it has 10 or fewer characters and does not match the heading pattern; a
\* line of more than 10 characters is kept, and so is a short heading line
Thm_C23_DropsTenOrFewer ==
    c_pc = "cleaned" =>
        NonEmptyLines(c_passes[1])
            = LinesLeft(c_text, LAMBDA l : TLen(l) <= 10 /\ ~ItemPatternMatch(l).ok)

\* a line of exactly ten characters was dropped and the heading after it kept
Wit_C23_TenDroppedHeadingKept ==
    /\ c_pc = "cleaned"
    /\ c_text = TJoin(Rep("\n", 1), <<Rep("t", 10), LitItem1A>>)
    /\ c_passes[1] = LitItem1A

----------------------------------------------------------------------------
(* The header search of _find_section_start_element *)

MaxHeaders == 2

LitItem1 == Str(<<"I", "t", "e", "m", " ", "1">>)

\* "Item 1A" followed by a blank and n letters
Heading1AWith(n) == Concat(<<LitItem1A, Rep(" ", 1), Rep("r", n)>>)

\* the elements a document is made of: a short heading; a paragraph of 59
\* characters and a <div> of 58, one side and the other of the length
\* limit for Item 1A; a long paragraph that starts with a bold item number;
\* a long bold heading of its own and a bold item number of its own; a long
\* paragraph inside a <b> whose text
\* starts otherwise; a <span>, which is no header; a heading of Item 1; a
\* <strong> inside a <span>; a paragraph with the id a1
HeaderKinds ==
    { Block("p", Concat(<<LitItem1A, Str(<<".", " ">>), LitRiskFactors>>)),
      Block("p", Concat(<<Str(<<"I", "T", "E", "M", " ", "1", "A">>), Rep(" ", 1),
                          Rep("r", 51)>>)),
      Block("div", TCat(Str(<<"i", "t", "e", "m", " ", "1", "a">>), Rep("-", 51))),
      Container("p", FALSE, <<Block("b", LitItem1A), TextNode(Rep("s", 60))>>),
      Block("b", Heading1AWith(60)),
      Block("b", LitItem1A),
      Container("b", FALSE, <<TextNode(Str(<<"S", "e", "e">>)),
                              Block("p", Heading1AWith(60))>>),
      Block("span", LitItem1A),
      Block("h3", TCat(LitItem1, Str(<<":", " ", "B", "i", "z">>))),
      Container("span", FALSE, <<Block("strong", LitItem1A)>>),
      Elem("p", A1, << >>, << >>, FALSE, <<TextNode(Rep("q", 20))>>) }

HeaderTrees == UNION {[1..n -> HeaderKinds] : n \in 1..MaxHeaders}

\* the TOC items looked for: without an anchor, with an anchor that may
\* resolve, with one that is nowhere, and an item number that is the
\* beginning of another
HeaderItems ==
    { TableOfContentsItem(LitItem1A, None),
      TableOfContentsItem(LitItem1A, Some(Hash(A1))),
      TableOfContentsItem(LitItem1A, Some(Hash(A2))),
      TableOfContentsItem(LitItem1, None) }

HInit ==
    /\ r_pc = "input"
    /\ r_soup \in HeaderTrees
    /\ r_item \in HeaderItems
    /\ r_start = << >>
    /\ r_end = << >>
    /\ r_content = << >>
    /\ FIdle
    /\ DIdle
    /\ PIdle
    /\ TIdle
    /\ CIdle
    /\ WIdle
    /\ SIdle
    /\ MIdle
    /\ GIdle
    /\ AIdle

HeaderSpec == HInit /\ [][RNext]_vars

\* p comes before q in document order
DocBefore(p, q) ==
    \/ Len(p) < Len(q) /\ SubSeq(q, 1, Len(p)) = p
    \/ \E i \in 1..Min(Len(p), Len(q)) :
          /\ SubSeq(p, 1, i - 1) = SubSeq(q, 1, i - 1)
          /\ p[i] < q[i]

\* the text begins with the item number, in any case, and the item number
\* ends there
StartsWithExactly(text, item_number) ==
    /\ TLower(TSlice(text, 0, TLen(item_number))) = TLower(item_number)
    /\ ~IsWordChar(At(text, TLen(item_number)))

\* the heading-like elements that qualify as the start of r_item
QualifiedHeaders ==
    {h \in {AllPaths(r_soup)[i] : i \in 1..Len(AllPaths(r_soup))} :
        Let(NodeAt(r_soup, h), LAMBDA n :
            /\ n.name \in {"p", "div", "b", "strong", "h1", "h2", "h3", "h4"}
            /\ StartsWithExactly(GetText(n), r_item.item_number)
            /\ \/ n.name \in {"b", "strong"}
               \/ ParentName(r_soup, h) \in {"b", "strong"}
               \/ TLen(GetText(n)) < TLen(r_item.item_number) + TLen(r_item.title) + 40)}

\* the anchor of r_item names an element of the document
AnchorResolves ==
    /\ r_item.anchor_text.some
    /\ FindTarget(r_soup, TFrom(r_item.anchor_text.val, 1)) # NoPath

\* C24: for an item without an anchor, or with an anchor that names no
\* element, the start node is the first heading-like element in document
\* order whose text starts with the exact item number and which is bold or
\* short, or its parent when it is a <b>/<strong> inside a <p>/<div>, and
\* there is no start node when no element qualifies; an item whose anchor
\* resolves gets the anchor's element or a later sibling of it
Thm_C24_FirstQualifiedHeader ==
    r_pc = "resolved" =>
        IF AnchorResolves
        THEN Let(FindTarget(r_soup, TFrom(r_item.anchor_text.val, 1)), LAMBDA target :
                 \/ r_start = target
                 \/ /\ Len(r_start) = Len(target)
                    /\ SiblingPath(target, r_start[Len(r_start)]) = r_start
                    /\ r_start[Len(r_start)] > target[Len(target)])
        ELSE Let(QualifiedHeaders, LAMBDA hs :
                 IF hs = {} THEN r_start = NoPath
                 ELSE Let(CHOOSE h \in hs : \A g \in hs \ {h} : DocBefore(h, g), LAMBDA first :
                          IF /\ NodeAt(r_soup, first).name \in {"b", "strong"}
                             /\ ParentName(r_soup, first) \in {"p", "div"}
                          THEN r_start = SubSeq(first, 1, Len(first) - 1)
                          ELSE r_start = first))

\* a long paragraph was passed over and the search settled on the <b> inside
\* a later paragraph, which was returned in its place
Wit_C24_BoldInsideLaterParagraph ==
    /\ r_pc = "resolved"
    /\ ~AnchorResolves
    /\ r_start = <<2>>
    /\ NodeAt(r_soup, <<1>>).name = "p"
    /\ StartsWithExactly(GetText(NodeAt(r_soup, <<1>>)), r_item.item_number)
    /\ <<2, 1>> \in QualifiedHeaders
    /\ <<2>> \notin QualifiedHeaders

----------------------------------------------------------------------------
(* Snippets of a section: _make_snippets_from_text (document_retriever.py) *)

MaxTextLen == 8
MaxSnippets == 3
MaxSnippetLen == 3

\* a text of n characters in which neighbouring characters differ
SnippetText(n) == Norm([i \in 1..n |-> [c |-> ParaLetter[((i - 1) % 5) + 1], n |-> 1]])

RECURSIVE SnippetsFrom(_, _, _, _, _)
\* the for loop from position pos with left rounds to go
SnippetsFrom(text, pos, left, min_len, max_len) ==
    Let2(pos, left, LAMBDA at, rounds :
        IF rounds = 0 \/ at >= TLen(text) THEN << >>
        ELSE Let(TLen(text) - at, LAMBDA remaining :
             Let(IF Min(max_len, remaining) < min_len /\ remaining >= min_len
                 THEN min_len ELSE Min(max_len, remaining), LAMBDA take :
                 <<TSlice(text, at, at + take)>>
                 \o SnippetsFrom(text, at + take, rounds - 1, min_len, max_len))))

\* mutant of MakeSnippetsFromText: the loop runs until the text is used up
MakeSnippetsFromText_AllOfText(text, k, min_len, max_len) ==
    IF text = << >> THEN << >> ELSE SnippetsFrom(text, 0, TLen(text), min_len, max_len)

\* _make_snippets_from_text(text, k, min_len, max_len)
MakeSnippetsFromText(text, k, min_len, max_len) ==
    IF text = << >> THEN << >> ELSE SnippetsFrom(text, 0, k, min_len, max_len)

MInit ==
    /\ m_pc = "input"
    /\ \E n \in 0..MaxTextLen, k \in 0..MaxSnippets, max_len \in 1..MaxSnippetLen :
         \E min_len \in 1..(MaxSnippetLen + 1) :
            m_args = [text |-> SnippetText(n), k |-> k, min_len |-> min_len,
                      max_len |-> max_len]
    /\ m_snippets = << >>
    /\ FIdle
    /\ DIdle
    /\ PIdle
    /\ TIdle
    /\ CIdle
    /\ RIdle
    /\ WIdle
    /\ SIdle
    /\ GIdle
    /\ AIdle

\* a call of _make_snippets_from_text
CallMakeSnippets ==
    /\ m_pc = "input"
    /\ m_pc' = "returned"
    /\ m_snippets' = MakeSnippetsFromText(m_args.text, m_args.k, m_args.min_len,
                                          m_args.max_len)
    /\ UNCHANGED m_args
    /\ UNCHANGED <<fvars, dvars, pvars, tvars, cvars, rvars, wvars, svars, gvars, avars>>

MNext == CallMakeSnippets

SnippetSpec == MInit /\ [][MNext]_vars

----------------------------------------------------------------------------
(* What the chunker is given: the cleaned content of a Section *)

\* t holds two newline characters next to each other
HasEmptyLine(t) == \E k \in 1..Len(t) : t[k].c = "\n" /\ t[k].n >= 2

\* t holds a newline character
HasNewline(t) == \E k \in 1..Len(t) : t[k].c = "\n"

----------------------------------------------------------------------------
(* The sibling walk when the end node is not ahead of the start node *)

MaxWalkFollowers == 3

WalkFollowerSeqs == UNION {[1..n -> FollowerKinds] : n \in 0..MaxWalkFollowers}

\* the anchor of r_item and its followers: at the top of the body; after the
\* anchor of the next item and its paragraph; inside a <div> that the anchor
\* of the next item follows; inside a <div> that the anchor of the next item
\* precedes
OverrunTrees ==
    {<<Block("p", Rep("x", 30)), NamedAnchor(A1)>> \o fs : fs \in WalkFollowerSeqs}
    \cup {<<NamedAnchor(ZZ), Block("p", Rep("y", 30)), NamedAnchor(A1)>> \o fs :
             fs \in WalkFollowerSeqs}
    \cup {<<Container("div", FALSE, <<NamedAnchor(A1)>> \o fs), NamedAnchor(ZZ),
            Block("p", Rep("z", 30))>> : fs \in WalkFollowerSeqs}
    \cup {<<NamedAnchor(ZZ), Block("p", Rep("u", 30)),
            Container("div", FALSE, <<NamedAnchor(A1)>> \o fs)>> : fs \in WalkFollowerSeqs}

OInit ==
    /\ r_pc = "input"
    /\ r_soup \in OverrunTrees
    /\ r_item = TableOfContentsItem(LitItem1A, Some(Hash(A1)))
    /\ r_start = << >>
    /\ r_end = << >>
    /\ r_content = << >>
    /\ FIdle
    /\ DIdle
    /\ PIdle
    /\ TIdle
    /\ CIdle
    /\ WIdle
    /\ SIdle
    /\ MIdle
    /\ GIdle
    /\ AIdle

OverrunSpec == OInit /\ [][RNext]_vars

\* the positions of the siblings after the start node
AfterStart == (r_start[Len(r_start)] + 1)..Len(SiblingsOf(r_soup, r_start))

\* there is an end node and it is not ahead of the start node: it is neither
\* a sibling after the start node nor below one
EndNotAhead == r_end # NoPath /\ BoundaryIndex <= r_start[Len(r_start)]

\* there is an end node and the walk meets no stop condition
NeverMet ==
    /\ r_end # NoPath
    /\ \A j \in AfterStart :
          ~StopsAt(SiblingsOf(r_soup, r_start)[j], Some(NodeAt(r_soup, r_end)))

\* the end node is the start node or a sibling before it
EndAtOrBeforeStart ==
    /\ Len(r_end) = Len(r_start)
    /\ SiblingPath(r_start, r_end[Len(r_end)]) = r_end
    /\ r_end[Len(r_end)] <= r_start[Len(r_start)]

\* the nodes a walk from the node at p to the last sibling takes text from
WalkedNodes(p) ==
    (IF StartNodeParts(NodeAt(r_soup, p)) # << >> THEN {p} ELSE {})
    \cup {SiblingPath(p, j) : j \in {i \in (p[Len(p)] + 1)..Len(SiblingsOf(r_soup, p)) :
                                        NodeParts(SiblingsOf(r_soup, p)[i]) # << >>}}

\* the content of r_item and that of the next item take text from one node
SharedText ==
    \E p \in WalkedNodes(r_start), q \in WalkedNodes(r_end) :
        p = q \/ IsUnder(p, q) \/ IsUnder(q, p)

\* t ends with suffix
EndsWith(t, suffix) == TSlice(t, TLen(t) - TLen(suffix), TLen(t)) = suffix

\* C27 as stated, for a content that is not empty: when the end node is not
\* ahead of the start node the walk runs to the last sibling, and the content
\* has text that the content of the later section has too
Orig_C27_OverrunSharesText ==
    (r_pc = "extracted" /\ EndNotAhead /\ r_content # << >>) =>
        /\ r_content = ContentOf(TRUE, Len(SiblingsOf(r_soup, r_start)))
        /\ SharedText

\* C27: when no sibling after the start node equals the end node or holds a
\* node equal to it, the walk runs to the last sibling and the content is
\* made of the start node and of every sibling after it; when the end node
\* is the start node or a sibling before it, the text of those siblings is
\* also the end of the content of the later section
Thm_C27_OverrunToLastSibling ==
    (r_pc = "extracted" /\ NeverMet) =>
        /\ r_content = ContentOf(TRUE, Len(SiblingsOf(r_soup, r_start)))
        /\ EndAtOrBeforeStart =>
              EndsWith(ExtractContentBetween(r_soup, r_end, None),
                       ContentOf(FALSE, Len(SiblingsOf(r_soup, r_start))))

\* both items resolved to one element and the text after it was collected
Wit_C27_SameStartNode ==
    /\ r_pc = "extracted"
    /\ NeverMet
    /\ r_end = r_start
    /\ ContentOf(FALSE, Len(SiblingsOf(r_soup, r_start))) # << >>

----------------------------------------------------------------------------
(* What the start node itself gives to the content *)

\* the content made of the parts first and of what the siblings after the
\* start node contribute, up to sibling number last
ContentWith(first, last) ==
    Let(SiblingsOf(r_soup, r_start), LAMBDA sibs :
    Let(first \o Concat([j \in 1..(last - r_start[Len(r_start)]) |->
                            NodeParts(sibs[r_start[Len(r_start)] + j])]),
        LAMBDA parts : NormalizeWhitespace(TStrip(TJoin(Rep("\n", 1), parts)))))

\* the text of the start node
OwnText == GetText(NodeAt(r_soup, r_start))

\* the text is an item heading token and nothing more
BareHeading(text) == ItemPatternMatch(text).ok /\ ItemPatternMatch(text).e = TLen(text)

\* C28: the content is made of the siblings that follow the start node; a
\* start node that is a div, table, tr, p, ul or ol, or an <a> without text,
\* gives nothing of its own, and any other start node gives its text when
\* that is not empty and more than the bare item heading token
Thm_C28_OwnTextOfStartNode ==
    r_pc = "extracted" =>
        \E last \in r_start[Len(r_start)]..Len(SiblingsOf(r_soup, r_start)) :
            /\ r_end = NoPath => last = Len(SiblingsOf(r_soup, r_start))
            /\ r_content =
                  ContentWith(IF \/ NodeAt(r_soup, r_start).name
                                       \in {"div", "table", "tr", "p", "ul", "ol"}
                                 \/ IsEmptyAnchor(NodeAt(r_soup, r_start))
                                 \/ OwnText = << >>
                                 \/ BareHeading(OwnText)
                              THEN << >> ELSE <<OwnText>>, last)

\* the start node is a paragraph with text, and the content is what follows it
Wit_C28_BlockStartLeftOut ==
    /\ r_pc = "extracted"
    /\ NodeAt(r_soup, r_start).name = "p"
    /\ OwnText # << >>
    /\ r_content # << >>
    /\ r_content = ContentOf(FALSE, Len(SiblingsOf(r_soup, r_start)))

----------------------------------------------------------------------------
(* The riskbot graph: build_graph (agent.py) and its nodes (utils/nodes.py) *)

\* how many times a run is resumed with a new question
MaxRounds == 3

Questions == {"q1", "q2", "q3"}

\* ConversationState(question=q)
NewConversation(q) ==
    [question |-> q, router_label |-> "None", execution_plan |-> "None",
     api_results |-> "None", answer |-> "None"]

\* mutant of ConditionalEdge: the planner follows the router whatever the label
ConditionalEdge_AlwaysPlanner(label) == "planner"

\* the conditional edge out of router (agent.py 24-28)
ConditionalEdge(label) == IF label = "VALID" THEN "planner" ELSE "ask_again"

\* the plain edges (agent.py 31-34)
Edge(node) ==
    CASE node = "ask_again" -> "router"
      [] node = "planner" -> "executor"
      [] node = "executor" -> "reasoner"
      [] node = "reasoner" -> "END"

\* how many times node stands in g_path
Visits(node) == Cardinality({i \in 1..Len(g_path) : g_path[i] = node})

GInit ==
    /\ g_at = "router"
    /\ \E q \in Questions : g_state = NewConversation(q)
    /\ g_labelled = << >>
    /\ g_path = << >>
    /\ FIdle
    /\ DIdle
    /\ PIdle
    /\ TIdle
    /\ CIdle
    /\ RIdle
    /\ WIdle
    /\ SIdle
    /\ MIdle
    /\ AIdle

\* intent_router_node: the chain answers with a label, or raises
RouterNode ==
    /\ g_at = "router"
    /\ g_path' = Append(g_path, "router")
    /\ \/ \E label \in {"VALID", "INVALID"} :
             /\ g_state' = [g_state EXCEPT !.router_label = label]
             /\ g_labelled' = g_state.question
             /\ g_at' = ConditionalEdge(label)
       \/ /\ g_at' = "failed"
          /\ UNCHANGED <<g_state, g_labelled>>
    /\ UNCHANGED <<fvars, dvars, pvars, tvars, cvars, rvars, wvars, svars, mvars, avars>>

\* ask_again_node up to interrupt(): the run is suspended
AskAgainInterrupt ==
    /\ g_at = "ask_again"
    /\ g_at' = "interrupted"
    /\ UNCHANGED <<g_state, g_labelled, g_path>>
    /\ UNCHANGED <<fvars, dvars, pvars, tvars, cvars, rvars, wvars, svars, mvars, avars>>

\* the run is resumed with a new question: ask_again_node runs to its end
AskAgainResume ==
    /\ g_at = "interrupted"
    /\ Visits("ask_again") < MaxRounds
    /\ \E new_question \in Questions :
          g_state' = [g_state EXCEPT !.question = new_question, !.router_label = "None"]
    /\ g_path' = Append(g_path, "ask_again")
    /\ g_at' = Edge("ask_again")
    /\ UNCHANGED g_labelled
    /\ UNCHANGED <<fvars, dvars, pvars, tvars, cvars, rvars, wvars, svars, mvars, avars>>

\* planner_node: the chain answers with a plan, or raises
PlannerNode ==
    /\ g_at = "planner"
    /\ g_path' = Append(g_path, "planner")
    /\ \/ /\ g_state' = [g_state EXCEPT !.execution_plan = "plan"]
          /\ g_at' = Edge("planner")
       \/ /\ g_at' = "failed"
          /\ UNCHANGED g_state
    /\ UNCHANGED g_labelled
    /\ UNCHANGED <<fvars, dvars, pvars, tvars, cvars, rvars, wvars, svars, mvars, avars>>

\* executor_node: the calls of the plan are made and their results or errors
\* stored; a plan without calls leaves an empty mapping
ExecutorNode ==
    /\ g_at = "executor"
    /\ g_path' = Append(g_path, "executor")
    /\ IF g_state.execution_plan = "None"
       THEN g_at' = "failed" /\ UNCHANGED g_state
       ELSE /\ \E api_results \in {"empty", "results"} :
                  g_state' = [g_state EXCEPT !.api_results = api_results]
            /\ g_at' = Edge("executor")
    /\ UNCHANGED g_labelled
    /\ UNCHANGED <<fvars, dvars, pvars, tvars, cvars, rvars, wvars, svars, mvars, avars>>

\* reasoner_node: an apology without results, else the chain's answer or the
\* text of its error
ReasonerNode ==
    /\ g_at = "reasoner"
    /\ g_path' = Append(g_path, "reasoner")
    /\ IF g_state.execution_plan = "None" \/ g_state.api_results \in {"None", "empty"}
       THEN g_state' = [g_state EXCEPT !.answer = "apology"]
       ELSE \E answer \in {"answer", "error"} :
               g_state' = [g_state EXCEPT !.answer = answer]
    /\ g_at' = Edge("reasoner")
    /\ UNCHANGED g_labelled
    /\ UNCHANGED <<fvars, dvars, pvars, tvars, cvars, rvars, wvars, svars, mvars, avars>>

GNext ==
    \/ RouterNode
    \/ AskAgainInterrupt
    \/ AskAgainResume
    \/ PlannerNode
    \/ ExecutorNode
    \/ ReasonerNode

GraphSpec == GInit /\ [][GNext]_vars

\* C29: a run at END went through router and ask_again in turns, then through
\* router with the label VALID made for the question it still holds, then
\* planner, executor and reasoner, once each; ask_again starts only from a
\* router step that set INVALID, and its end puts the new question in place,
\* clears the label and hands over to router, however many rounds came before
Thm_C29_GraphRuns ==
    /\ [](g_at = "END" =>
            /\ g_state.router_label = "VALID"
            /\ g_labelled = g_state.question
            /\ Len(g_path) >= 4
            /\ SubSeq(g_path, Len(g_path) - 3, Len(g_path))
                  = <<"router", "planner", "executor", "reasoner">>
            /\ \A i \in 1..(Len(g_path) - 4) :
                  g_path[i] = IF i % 2 = 1 THEN "router" ELSE "ask_again")
    /\ [][g_at' = "ask_again" => g_at = "router" /\ g_state'.router_label = "INVALID"]_gvars
    /\ [][g_at = "ask_again" => g_at' = "interrupted"]_gvars
    /\ [][g_at = "interrupted" =>
              /\ g_at' = "router"
              /\ g_state'.router_label = "None"
              /\ \E q \in Questions :
                    g_state' = [g_state EXCEPT !.question = q, !.router_label = "None"]]_gvars
    /\ [](g_at = "interrupted" /\ Visits("ask_again") < MaxRounds => ENABLED AskAgainResume)

\* a run reached END after MaxRounds rounds of ask_again, the last of which
\* changed the question
Wit_C29_EndAfterRounds ==
    /\ g_at = "END"
    /\ Visits("ask_again") = MaxRounds
    /\ Visits("router") = MaxRounds + 1
    /\ g_state.answer = "answer"

----------------------------------------------------------------------------
(* HTTP GET with retries: BaseAPIClient._get (clients/base_client.py) *)

\* how many calls of _get a client makes
MaxCalls == 2

\* stop_after_attempt(3)
ApiStopAfterAttempt == 3

\* path and params of a call
ApiRequests == [path : {"/quote", "/news", "/calendar", "/profile"},
                params : {"None", "symbol"}]

\* what an attempt meets: a response with a status and a body that is or is
\* not JSON, or no response at all
ApiReplies ==
    { [kind |-> "response", status_code |-> 200, body |-> "json1"],
      [kind |-> "response", status_code |-> 200, body |-> "json2"],
      [kind |-> "response", status_code |-> 200, body |-> "not json"],
      [kind |-> "response", status_code |-> 404, body |-> "json1"],
      [kind |-> "response", status_code |-> 500, body |-> "not json"],
      [kind |-> "RequestError", status_code |-> 0, body |-> ""] }

\* the exception the body of _get ends with on this reply, "None" when it
\* returns (base_client.py 33-42)
GetRaises(reply) ==
    IF reply.kind = "RequestError" THEN "RequestError"
    ELSE IF ~IsSuccess(reply.status_code) THEN "APIError"
    ELSE IF reply.body = "not json" THEN "JSONDecodeError"
    ELSE "None"

\* retry_if_exception_type(httpx.HTTPStatusError): APIError derives from
\* Exception only
ApiShouldRetry(exception) == exception = "HTTPStatusError"

\* the call is made
AInit ==
    /\ a_pc = "attempting"
    /\ a_request \in ApiRequests
    /\ a_attempt = 1
    /\ a_sent = << >>
    /\ a_outcome = << >>
    /\ a_calls = 1
    /\ FIdle
    /\ DIdle
    /\ PIdle
    /\ TIdle
    /\ CIdle
    /\ RIdle
    /\ WIdle
    /\ SIdle
    /\ MIdle
    /\ GIdle

\* one attempt of _get and what tenacity does with its outcome
GetAttempt ==
    /\ a_pc = "attempting"
    /\ \E reply \in ApiReplies :
          /\ a_sent' = Append(a_sent, [request |-> a_request, reply |-> reply])
          /\ LET exception == GetRaises(reply)
             IN  IF exception = "None"
                 THEN /\ a_pc' = "returned"
                      /\ a_outcome' = [returned |-> reply.body]
                      /\ UNCHANGED a_attempt
                 ELSE IF ApiShouldRetry(exception) /\ a_attempt < ApiStopAfterAttempt
                 THEN /\ a_pc' = "attempting"
                      /\ a_attempt' = a_attempt + 1
                      /\ UNCHANGED a_outcome
                 ELSE /\ a_pc' = "raised"
                      /\ a_outcome' = [raised |-> exception]
                      /\ UNCHANGED a_attempt
    /\ UNCHANGED <<a_request, a_calls>>
    /\ UNCHANGED <<fvars, dvars, pvars, tvars, cvars, rvars, wvars, svars, mvars, gvars>>

\* the client makes its next call
NextCall ==
    /\ a_pc \in {"returned", "raised"}
    /\ a_calls < MaxCalls
    /\ a_pc' = "attempting"
    /\ a_request' \in ApiRequests
    /\ a_attempt' = 1
    /\ a_sent' = << >>
    /\ a_outcome' = << >>
    /\ a_calls' = a_calls + 1
    /\ UNCHANGED <<fvars, dvars, pvars, tvars, cvars, rvars, wvars, svars, mvars, gvars>>

ANext == GetAttempt \/ NextCall

ApiSpec == AInit /\ [][ANext]_vars

\* the reply of attempt i had an HTTP error status
ErrorStatus(i) ==
    a_sent[i].reply.kind = "response" /\ ~IsSuccess(a_sent[i].reply.status_code)

\* C30 as stated: an error status is answered by another attempt until three
\* have been made, so the error of an error status reaches the caller after
\* three attempts that all met one; a call that returns hands over the JSON
\* body of its last attempt, the attempts before it having met error statuses
Orig_C30_ThreeAttemptsOnErrorStatus ==
    /\ Len(a_sent) <= ApiStopAfterAttempt
    /\ (a_pc = "raised" /\ ErrorStatus(Len(a_sent))) =>
          /\ Len(a_sent) = ApiStopAfterAttempt
          /\ \A i \in 1..Len(a_sent) : ErrorStatus(i)
    /\ a_pc = "returned" =>
          /\ a_outcome = [returned |-> a_sent[Len(a_sent)].reply.body]
          /\ \A i \in 1..(Len(a_sent) - 1) : ErrorStatus(i)

====
